---- MODULE Spec2Model ----
(***************************************************************************)
(* Model of rust-keyutils: the Key / Keyring / KeyManager handles of       *)
(* src/src/api.rs over the kernel key facility.  The library keeps no      *)
(* state of its own: all state is the kernel's key database, which is      *)
(* modelled here as the test-suite (src/src/tests) and the documentation   *)
(* comments of the API describe it.                                        *)
(*                                                                         *)
(* Several specifications share the variables:                             *)
(*   SpecBuf    the probe-then-fill retrieval of a variable-length reply   *)
(*   Spec       add_key / add_keyring, read and describe                   *)
(*   SpecLink   link and unlink of keyrings, with the collector            *)
(*   SpecGC     unlink and invalidate with the collector (FairGC: fair)    *)
(*   SpecRead   Keyring::read against concurrent removal of children       *)
(*   SpecMgr    Key::manage and KeyManager                                 *)
(*   SpecPerm   reads under changed permission masks                       *)
(*   SpecParse  Description::parse                                         *)
(*   SpecRelink link and unlink of populated keyrings                      *)
(*   SpecChain  chains of nested keyrings and links that close a cycle     *)
(*   SpecSearch search_for_key / search_for_keyring under changed masks    *)
(*   SpecRevoke revoke, set_timeout and expiry seen through clones         *)
(*   SpecRestrict  keyrings restricted against new links                   *)
(*   SpecSetperm   set_permissions and description                         *)
(*   SpecNegate    KeyManager::reject and negate with timeouts             *)
(*   SpecClear  Keyring::read and clear with nothing running in between    *)
(*   SpecSerial the conversion of a kernel return value into a serial      *)
(*   SpecTimeout   set_timeout with durations, and the clock               *)
(*   SpecTypes  add_key and request through the key types, and read        *)
(***************************************************************************)
EXTENDS Integers, Sequences, FiniteSets, TLC

VARIABLES
    kobj,       \* SpecBuf: the bytes the kernel object currently holds
    kerrno,     \* SpecBuf: the errno the next call on the object fails with ("" = none)
    call,       \* SpecBuf: the retrieval in progress (kind, pc, sz, capacity, result)
    keys,       \* the kernel's key database: serial -> state, type, description, payload,
                \* mask, timeout, restriction
    links,      \* the kernel's keyring links: <<keyring, child>>
    last,       \* the most recent completed library call or kernel step, and its result
    gone,       \* the serials an operation has answered ENOKEY for
    rd,         \* the Keyring::read in progress (position, fetched children, lists)
    auth,       \* the key the thread has assumed authority over (0 = none)
    mgrs,       \* the KeyManager values the thread has created
    reqs,       \* the keys the kernel has under construction for a request_key
    dp          \* the Description::parse call: its input and its result

bufVars == <<kobj, kerrno, call>>
kernVars == <<keys, links, last, gone>>
mgrVars == <<auth, mgrs, reqs>>
vars == <<bufVars, kernVars, rd, mgrVars, dp>>

\* what each specification leaves alone
bufRest == <<kernVars, rd, mgrVars, dp>>
kernRest == <<bufVars, rd, mgrVars, dp>>
readRest == <<bufVars, mgrVars, dp>>
mgrRest == <<keys, links, gone, bufVars, rd, dp>>
parseRest == <<bufVars, kernVars, rd, mgrVars>>

(***************************************************************************)
(* Bounds.                                                                 *)
(***************************************************************************)
MaxLen == 2
MaxByte == 2
MaxKeys == 3
MaxTimeout == 1
MaxPayLen == 1

Byte == 1..MaxByte
NUL == 0

RECURSIVE SeqsUpTo(_, _)
SeqsUpTo(S, n) ==
    IF n = 0 THEN {<<>>}
    ELSE LET shorter == SeqsUpTo(S, n - 1)
         IN  shorter \cup {Append(s, x) : s \in {t \in shorter : Len(t) = n - 1}, x \in S}

SeqsOfLen(S, n) == {s \in SeqsUpTo(S, n) : Len(s) = n}

\* Result<T>: the value is a handle (`val`, a serial), bytes or a Description.
NoDescription == [type_ |-> "", perms |-> 0, description |-> ""]
Unit == [ok |-> TRUE, err |-> "", val |-> 0, bytes |-> <<>>, desc |-> NoDescription]
Ok(serial) == [Unit EXCEPT !.val = serial]
OkBytes(b) == [Unit EXCEPT !.bytes = b]
OkDescription(d) == [Unit EXCEPT !.desc = d]
Err(e) == [Unit EXCEPT !.ok = FALSE, !.err = e]

(***************************************************************************)
(* The probe-then-fill retrieval shared by Key::read, Keyring::read,       *)
(* description_raw, security and compute_dh.                               *)
(***************************************************************************)
Kinds == {"read", "describe", "security", "keyring_read", "compute_dh"}

\* mem::size_of::<KeyringSerial>(): the bytes of one element of a keyring's reply
SerialSize == 4

ElemSize(kind) == IF kind = "keyring_read" THEN SerialSize ELSE 1

\* What the kernel has to say about the object: a description and a security
\* label are NUL-terminated strings, and the terminator is counted.
KernelReply(kind, obj) ==
    IF kind \in {"describe", "security"} THEN Append(obj, NUL) ELSE obj

\* The return value of a successful call: the size of the whole reply in bytes,
\* whatever the capacity of the buffer that was handed in.
KernelSize(kind, obj) == ElemSize(kind) * Len(KernelReply(kind, obj))

\* check_call: -1 is the failure sentinel, errno is the error.
check_call(errno) == errno = ""

\* The argument of buffer.set_len() after the fill call.
SetLenArg(kind, actual_sz) ==
    CASE kind = "describe"     -> actual_sz - 1
      [] kind = "keyring_read" -> actual_sz \div SerialSize
      [] OTHER                 -> actual_sz

\* The Vec the operation returns.  The kernel copies a reply only into a buffer
\* that holds all of it; after a reply larger than the buffer, set_len exposes
\* memory nobody wrote (and, beyond the capacity, memory the Vec does not own):
\* any bytes at all.
FilledBuffer(kind, obj, sz, n) ==
    IF KernelSize(kind, obj) <= sz
    THEN {SubSeq(KernelReply(kind, obj), 1, n)}
    ELSE SeqsOfLen(0..MaxByte, n)

IdleRead == [pc |-> "idle", ring |-> 0, cap |-> 0, buffer |-> <<>>, i |-> 0,
             keys |-> <<>>, keyrings |-> <<>>, res |-> Err("")]

\* bounds of the manager world
MaxMgrs == 3
Mgrs == 1..MaxMgrs
NoManager == [st |-> "none", key |-> 0, calls |-> 0]
NoManagers == [m \in Mgrs |-> NoManager]
NoRequest == [st |-> "none", payload |-> <<>>, ring |-> 0, error |-> "", timeout |-> 0]
NoRequests == [k \in 1..MaxKeys |-> NoRequest]
\* a u32 as its two 16-bit halves
U32(n) == [hi |-> n \div 65536, lo |-> n % 65536]
NoParse == [kind |-> "", type_ |-> <<>>, uid |-> U32(0), gid |-> U32(0),
            perms |-> 0, description |-> <<>>]
IdleParse == [pc |-> "idle", desc |-> <<>>, res |-> NoParse, err |-> ""]

IdleCall == [pc |-> "idle", kind |-> "read", sz |-> 0, cap |-> 0, res |-> Err("")]

InitBuf ==
    /\ kobj \in SeqsUpTo(Byte, MaxLen)
    /\ kerrno = ""
    /\ call = IdleCall
    /\ keys = <<>>
    /\ links = {}
    /\ last = [op |-> "none", args |-> <<>>, res |-> Err(""), note |-> ""]
    /\ gone = {}
    /\ rd = IdleRead
    /\ auth = 0
    /\ mgrs = NoManagers
    /\ reqs = NoRequests
    /\ dp = IdleParse

\* First call: null destination, zero capacity; the buffer is then allocated
\* with the capacity the kernel asked for.
RetrieveProbe(kind) ==
    /\ call.pc = "idle"
    /\ call' = IF check_call(kerrno)
               THEN [pc |-> "probed", kind |-> kind, sz |-> KernelSize(kind, kobj),
                     cap |-> KernelSize(kind, kobj) \div ElemSize(kind), res |-> Err("")]
               ELSE [IdleCall EXCEPT !.pc = "done", !.kind = kind, !.res = Err(kerrno)]
    /\ UNCHANGED <<kobj, kerrno, bufRest>>

\* Second call, with the buffer; its return value becomes the length.
RetrieveFill ==
    /\ call.pc = "probed"
    /\ IF check_call(kerrno)
       THEN \E data \in FilledBuffer(call.kind, kobj, call.sz,
                                     SetLenArg(call.kind, KernelSize(call.kind, kobj))) :
                call' = [call EXCEPT !.pc = "done", !.res = OkBytes(data)]
       ELSE call' = [call EXCEPT !.pc = "done", !.res = Err(kerrno)]
    /\ UNCHANGED <<kobj, kerrno, bufRest>>

RetrieveReturn ==
    /\ call.pc = "done"
    /\ call' = IdleCall
    /\ UNCHANGED <<kobj, kerrno, bufRest>>

\* Another process updates the object: the kernel does not lock it between
\* the two calls.
ConcurrentUpdate(new) ==
    /\ kobj' = new
    /\ new # kobj
    /\ UNCHANGED <<kerrno, call, bufRest>>

\* Another process revokes, invalidates or re-permissions the object.
ConcurrentCondition(e) ==
    /\ kerrno' = e
    /\ e # kerrno
    /\ UNCHANGED <<kobj, call, bufRest>>

NextBuf ==
    \/ \E kind \in Kinds : RetrieveProbe(kind)
    \/ RetrieveFill
    \/ RetrieveReturn
    \/ \E new \in SeqsUpTo(Byte, MaxLen) : ConcurrentUpdate(new)
    \/ \E e \in {"", "ENOKEY", "EACCES"} : ConcurrentCondition(e)

SpecBuf == InitBuf /\ [][NextBuf]_vars

\* C1: a variable-length retrieval never returns more data than the capacity
\* of the buffer handed to its last kernel call (it retries instead).
C1_NeverExceedsCapacity ==
    (call.pc = "done" /\ call.res.ok) => Len(call.res.bytes) <= call.cap

(***************************************************************************)
(* The kernel's key database, as the library's callers see it.             *)
(***************************************************************************)
Serials == 1..MaxKeys
Descs == {"d1", "d2"}
Payloads == SeqsUpTo(Byte, MaxPayLen) \ {<<>>}

KEY_TYPE_KEYRING == "keyring"
KEY_TYPE_USER == "user"

KEY_POS_VIEW == 16777216
KEY_POS_READ == 33554432
KEY_POS_WRITE == 67108864
KEY_POS_SEARCH == 134217728
KEY_POS_LINK == 268435456
KEY_POS_SETATTR == 536870912
KEY_POS_ALL == 1056964608
KEY_USR_VIEW == 65536
KEY_USR_READ == 131072
KEY_USR_WRITE == 262144
KEY_USR_SEARCH == 524288
KEY_USR_LINK == 1048576
KEY_USR_SETATTR == 2097152
KEY_USR_ALL == 4128768
KEY_GRP_SETATTR == 8192
KEY_GRP_ALL == 16128
KEY_OTH_SETATTR == 32
KEY_OTH_ALL == 63

\* Permission::contains for a single bit
HasBit(perm, bit) == (perm \div bit) % 2 = 1

\* The mask of a key nobody has re-permissioned (what describe reports of a
\* new key): possessor everything, owner view.
DefaultPerm == KEY_POS_ALL + KEY_USR_VIEW

NoKey == [st |-> "none", type |-> "", desc |-> "", payload |-> <<>>, perm |-> 0,
          timeout |-> 0, restricted |-> FALSE]
DeadKey == [NoKey EXCEPT !.st = "dead"]

\* The keyring every test works in: linked into the thread keyring, which
\* keeps it referenced and possessed.
Root == 1
RootKey == [st |-> "live", type |-> KEY_TYPE_KEYRING, desc |-> "test",
            payload |-> <<>>, perm |-> DefaultPerm, timeout |-> 0,
            restricted |-> FALSE]

\* A key the kernel still has: invalidation and unlinking only schedule the
\* removal, which the collector performs later.
Present(k) == keys[k].st \in {"live", "invalidated"}
IsKeyring(k) == keys[k].type = KEY_TYPE_KEYRING
Children(r) == {c \in DOMAIN keys : <<r, c>> \in links}
Parents(c) == {r \in DOMAIN keys : <<r, c>> \in links}

\* The caller owns every key it made: the user zone always applies.
UserMay(k, usr) == HasBit(keys[k].perm, usr)

\* Possession: the key is found by a search from the thread's keyrings, i.e.
\* through keyrings that are possessed and searchable, and is searchable itself.
RECURSIVE PossessedWithin(_)
PossessedWithin(n) ==
    IF n = 0
    THEN {k \in {Root} : Present(k)
            /\ (UserMay(k, KEY_USR_SEARCH) \/ HasBit(keys[k].perm, KEY_POS_SEARCH))}
    ELSE LET inner == PossessedWithin(n - 1)
         IN  inner \cup
             {k \in DOMAIN keys : Present(k)
                /\ (UserMay(k, KEY_USR_SEARCH) \/ HasBit(keys[k].perm, KEY_POS_SEARCH))
                /\ \E r \in inner : IsKeyring(r) /\ <<r, k>> \in links}

Possessed(k) == k \in PossessedWithin(Cardinality(DOMAIN keys))

\* The kernel's permission check: the possessor zone adds to the user zone
\* when the caller possesses the key.
May(k, usr, pos) == UserMay(k, usr) \/ (Possessed(k) /\ HasBit(keys[k].perm, pos))

\* (mutant) a read check that looks at the read bits only.
MayRead_bitsOnly(k) == May(k, KEY_USR_READ, KEY_POS_READ)

\* (mutant) a read check that asks for possession and nothing else.
MayRead_possessedOnly(k) == Possessed(k)

\* keyctl_read's check: the read permission, or else possession alone.
MayRead(k) == May(k, KEY_USR_READ, KEY_POS_READ) \/ Possessed(k)

\* The errno a revoked or expired key answers every lookup with, "" if the
\* key is neither.
Lapsed(k) ==
    IF keys[k].st = "revoked" THEN "EKEYREVOKED"
    ELSE IF keys[k].st = "expired" THEN "EKEYEXPIRED"
    ELSE ""

\* (mutant) a lookup that does not tell a revoked key from a missing one.
Lookup_revokedGone(k, usr, pos) ==
    IF ~Present(k) THEN "ENOKEY"
    ELSE IF ~May(k, usr, pos) THEN "EACCES"
    ELSE ""

\* The errno of a lookup of `k` needing the permission (usr, pos), "" if none.
Lookup(k, usr, pos) ==
    IF Lapsed(k) # "" THEN Lapsed(k)
    ELSE IF ~Present(k) THEN "ENOKEY"
    ELSE IF ~May(k, usr, pos) THEN "EACCES"
    ELSE ""

\* ... and of a lookup of `r` as a keyring to be modified.
LookupRing(r) ==
    IF Lapsed(r) # "" THEN Lapsed(r)
    ELSE IF ~Present(r) THEN "ENOKEY"
    ELSE IF ~IsKeyring(r) THEN "ENOTDIR"
    ELSE IF ~May(r, KEY_USR_WRITE, KEY_POS_WRITE) THEN "EACCES"
    ELSE ""

\* (mutant) Key::read that sets the length one short, as description_raw does.
Key_read_short(k) ==
    IF ~Present(k) THEN Err("ENOKEY")
    ELSE IF ~MayRead(k) THEN Err("EACCES")
    ELSE OkBytes(SubSeq(keys[k].payload, 1, Len(keys[k].payload) - 1))

\* Key::read: the payload, byte for byte.
Key_read(k) ==
    IF Lapsed(k) # "" THEN Err(Lapsed(k))
    ELSE IF ~Present(k) THEN Err("ENOKEY")
    ELSE IF ~MayRead(k) THEN Err("EACCES")
    ELSE OkBytes(keys[k].payload)

(***************************************************************************)
(* Numbers in the kernel's description string.                             *)
(***************************************************************************)
Digits == <<"0", "1", "2", "3", "4", "5", "6", "7", "8", "9",
            "a", "b", "c", "d", "e", "f">>
UpperDigits == <<"0", "1", "2", "3", "4", "5", "6", "7", "8", "9",
                 "A", "B", "C", "D", "E", "F">>

\* char::to_digit: the value of c in the radix, -1 if it is no digit of it.
to_digit(c, radix) ==
    LET hits == {i \in 1..radix : Digits[i] = c \/ UpperDigits[i] = c}
    IN  IF hits = {} THEN -1 ELSE (CHOOSE i \in hits : TRUE) - 1

\* The digits of a u32, most significant first; ok is FALSE on a character
\* that is no digit and on overflow of the 32 bits.
RECURSIVE accumulate(_, _, _)
accumulate(digits, radix, acc) ==
    IF ~acc.ok \/ digits = <<>> THEN acc
    ELSE LET d == to_digit(Head(digits), radix)
             lo == acc.lo * radix + d
             hi == acc.hi * radix + lo \div 65536
         IN  IF d < 0 \/ hi >= 65536
             THEN [ok |-> FALSE, hi |-> 0, lo |-> 0]
             ELSE accumulate(Tail(digits), radix,
                             [ok |-> TRUE, hi |-> hi, lo |-> lo % 65536])

\* u32::from_str_radix and str::parse::<u32> (radix 10): an optional "+",
\* then at least one digit.
from_str_radix(str, radix) ==
    LET digits == IF str # <<>> /\ Head(str) = "+" THEN Tail(str) ELSE str
    IN  IF digits = <<>> THEN [ok |-> FALSE, hi |-> 0, lo |-> 0]
        ELSE accumulate(digits, radix, [ok |-> TRUE, hi |-> 0, lo |-> 0])

\* x & 0x3f3f on sixteen bits
And3f3f(x) == ((x \div 256) % 64) * 256 + (x % 64)

\* (mutant) a truncation that leaves the two top bits of the user zone's byte.
from_bits_truncate_partial(bits) == (bits.hi % 16384) * 65536 + And3f3f(bits.lo)

\* Permission::from_bits_truncate: the bits of the mask that are flags
\* (0x3f3f3f3f), as a number.
from_bits_truncate(bits) == And3f3f(bits.hi) * 65536 + And3f3f(bits.lo)

\* The mask as KEYCTL_DESCRIBE prints it: eight hexadecimal digits.
Hex8(perm) == [i \in 1..8 |-> Digits[((perm \div (16 ^ (8 - i))) % 16) + 1]]

\* Key::description / Keyring::description: what Description::parse makes of
\* the kernel's reply.
Description(k) == [type_ |-> keys[k].type,
                   perms |-> from_bits_truncate(from_str_radix(Hex8(keys[k].perm), 16)),
                   description |-> keys[k].desc]

description(k) ==
    IF Lookup(k, KEY_USR_VIEW, KEY_POS_VIEW) # ""
    THEN Err(Lookup(k, KEY_USR_VIEW, KEY_POS_VIEW))
    ELSE OkDescription(Description(k))

\* The record of a step; `note` tells how the kernel served it.
Returned(op, args, res) == [op |-> op, args |-> args, res |-> res, note |-> ""]

Answered(k, res) == IF ~res.ok /\ res.err = "ENOKEY" THEN gone \cup {k} ELSE gone

(***************************************************************************)
(* Keyring::add_key / Keyring::add_keyring (the add_key syscall).           *)
(***************************************************************************)
\* The child of `r` the kernel takes for "the same key": same type, same
\* description.
SameKey(r, type, d) ==
    {c \in Children(r) : Present(c) /\ keys[c].type = type /\ keys[c].desc = d}

\* (mutant) a keyring whose restriction is not looked at.
Restricted_never(r) == FALSE

\* The keyring takes no new link: KEYCTL_RESTRICT_KEYRING was applied to it
\* with no type (Restriction::AllLinks).
Restricted(r) == keys[r].restricted

FreeSerials == {n \in DOMAIN keys : keys[n].st = "none"}
NewSerial == CHOOSE n \in FreeSerials : \A m \in FreeSerials : n <= m

\* (mutant) the kernel never updates in place: every add makes a new key.
Updatable_never(r, type, d) == {}

\* Only a type with an update method (user) is updated in place, and only
\* when the caller may write the key; otherwise a new key displaces the link.
Updatable(r, type, d) ==
    {c \in SameKey(r, type, d) :
        type = KEY_TYPE_USER /\ May(c, KEY_USR_WRITE, KEY_POS_WRITE)}

add_key(r, type, d, p) ==
    LET upd == Updatable(r, type, d)
        args == <<r, type, d, p>>
    IN  IF LookupRing(r) # ""
        THEN /\ last' = Returned("add_key", args, Err(LookupRing(r)))
             /\ gone' = Answered(r, Err(LookupRing(r)))
             /\ UNCHANGED <<keys, links>>
        ELSE IF Restricted(r)
        THEN /\ last' = Returned("add_key", args, Err("EPERM"))
             /\ UNCHANGED <<keys, links, gone>>
        ELSE IF upd # {}
        THEN LET c == CHOOSE c \in upd : TRUE
             IN  /\ keys' = [keys EXCEPT ![c].payload = p]
                 /\ last' = [Returned("add_key", args, Ok(c)) EXCEPT !.note = "updated"]
                 /\ UNCHANGED <<links, gone>>
        ELSE /\ FreeSerials # {}
             /\ keys' = [keys EXCEPT ![NewSerial] =
                            [st |-> "live", type |-> type, desc |-> d,
                             payload |-> p, perm |-> DefaultPerm, timeout |-> 0,
                             restricted |-> FALSE]]
             /\ links' = (links \ {<<r, c>> : c \in SameKey(r, type, d)})
                            \cup {<<r, NewSerial>>}
             /\ last' = Returned("add_key", args, Ok(NewSerial))
             /\ UNCHANGED gone

AddKey(r, d, p) == add_key(r, KEY_TYPE_USER, d, p) /\ UNCHANGED kernRest
AddKeyring(r, d) == add_key(r, KEY_TYPE_KEYRING, d, <<>>) /\ UNCHANGED kernRest

(***************************************************************************)
(* Keyring::link_key / link_keyring, unlink_key / unlink_keyring, clear.    *)
(***************************************************************************)
\* The first chain depth at which the kernel's cycle check gives up (ELOOP).
maxdepth == 8

\* The keyrings `n` links below the keyrings of S.
RECURSIVE Level(_, _)
Level(S, n) ==
    IF n = 0 THEN S
    ELSE LET above == Level(S, n - 1)
         IN  IF above = {} THEN {}
             ELSE {c \in DOMAIN keys : Present(c) /\ IsKeyring(c)
                     /\ \E r \in above : <<r, c>> \in links}

Below(k) == UNION {Level({k}, n) : n \in 0..(maxdepth - 1)}

\* (mutant) a cycle check with no limit on the depth it walks to.
DetectCycle_noLimit(k, r) ==
    IF ~IsKeyring(k) THEN ""
    ELSE IF r \in UNION {Level({k}, n) : n \in 0..Cardinality(DOMAIN keys)}
    THEN "EDEADLK"
    ELSE ""

\* (mutant) a cycle check that only refuses to link a keyring into itself.
DetectCycle_selfOnly(k, r) ==
    IF IsKeyring(k) /\ k = r THEN "EDEADLK" ELSE ""

\* keyctl_link's cycle check when keyring `k` is to be linked into `r`: the
\* kernel walks down from `k` looking for `r`.
DetectCycle(k, r) ==
    IF ~IsKeyring(k) THEN ""
    ELSE IF Level({k}, maxdepth) # {} THEN "ELOOP"
    ELSE IF r \in Below(k) THEN "EDEADLK"
    ELSE ""

\* (mutant) a link that refuses an object that is linked already.
link_errno_exists(r, k) ==
    IF LookupRing(r) # "" THEN LookupRing(r)
    ELSE IF Lookup(k, KEY_USR_LINK, KEY_POS_LINK) # ""
    THEN Lookup(k, KEY_USR_LINK, KEY_POS_LINK)
    ELSE IF <<r, k>> \in links THEN "EEXIST"
    ELSE DetectCycle(k, r)

\* The errno keyctl_link answers with, "" if it links.
link_errno(r, k) ==
    IF LookupRing(r) # "" THEN LookupRing(r)
    ELSE IF Lookup(k, KEY_USR_LINK, KEY_POS_LINK) # ""
    THEN Lookup(k, KEY_USR_LINK, KEY_POS_LINK)
    ELSE IF Restricted(r) THEN "EPERM"
    ELSE DetectCycle(k, r)

Link(r, k) ==
    /\ keys[r].st # "none" /\ keys[k].st # "none"
    /\ IF link_errno(r, k) # ""
       THEN /\ last' = Returned("link", <<r, k>>, Err(link_errno(r, k)))
            /\ gone' = Answered(IF Present(r) THEN k ELSE r, Err(link_errno(r, k)))
            /\ UNCHANGED <<keys, links>>
       ELSE /\ links' = (links \ {<<r, c>> : c \in SameKey(r, keys[k].type, keys[k].desc)})
                            \cup {<<r, k>>}
            /\ last' = [Returned("link", <<r, k>>, Unit) EXCEPT
                            !.note = IF <<r, k>> \in links THEN "linked before" ELSE ""]
            /\ UNCHANGED <<keys, gone>>
    /\ UNCHANGED kernRest

\* (mutant) an unlink that answers "no such key" for whatever it cannot do.
unlink_errno_oneError(r, k) ==
    IF LookupRing(r) # "" THEN LookupRing(r)
    ELSE IF ~Present(k) /\ Lapsed(k) = "" THEN "ENOKEY"
    ELSE IF <<r, k>> \notin links THEN "ENOKEY"
    ELSE ""

\* The errno keyctl_unlink answers with, "" if it unlinks.
unlink_errno(r, k) ==
    IF LookupRing(r) # "" THEN LookupRing(r)
    ELSE IF ~Present(k) /\ Lapsed(k) = "" THEN "ENOKEY"
    ELSE IF <<r, k>> \notin links THEN "ENOENT"
    ELSE ""

Unlink(r, k) ==
    /\ keys[r].st # "none" /\ keys[k].st # "none"
    /\ IF unlink_errno(r, k) # ""
       THEN /\ last' = Returned("unlink", <<r, k>>, Err(unlink_errno(r, k)))
            /\ gone' = Answered(IF Present(r) THEN k ELSE r, Err(unlink_errno(r, k)))
            /\ UNCHANGED <<keys, links>>
       ELSE /\ links' = links \ {<<r, k>>}
            /\ last' = Returned("unlink", <<r, k>>, Unit)
            /\ UNCHANGED <<keys, gone>>
    /\ UNCHANGED kernRest

\* Keyring::clear (keyctl_clear): every link of the keyring is dropped.
Clear(r) ==
    /\ keys[r].st # "none"
    /\ IF LookupRing(r) # ""
       THEN /\ last' = Returned("clear", <<r>>, Err(LookupRing(r)))
            /\ gone' = Answered(r, Err(LookupRing(r)))
            /\ UNCHANGED <<keys, links>>
       ELSE /\ links' = {l \in links : l[1] # r}
            /\ last' = [Returned("clear", <<r>>, Unit) EXCEPT
                            !.note = IF Children(r) # {} THEN "had children" ELSE ""]
            /\ UNCHANGED <<keys, gone>>
    /\ UNCHANGED kernRest

(***************************************************************************)
(* Key::invalidate / Keyring::invalidate and the kernel's collector.       *)
(***************************************************************************)
Invalidate(k) ==
    /\ keys[k].st # "none"
    /\ LET e == Lookup(k, KEY_USR_SEARCH, KEY_POS_SEARCH)
       IN  IF e # ""
           THEN /\ last' = Returned("invalidate", <<k>>, Err(e))
                /\ gone' = Answered(k, Err(e))
                /\ UNCHANGED <<keys, links>>
           ELSE /\ keys' = [keys EXCEPT ![k].st = "invalidated"]
                /\ last' = Returned("invalidate", <<k>>, Unit)
                /\ UNCHANGED <<links, gone>>
    /\ UNCHANGED kernRest

\* (mutant) a collector that only removes keys no keyring links.
Collectable_unlinkedOnly(k) ==
    /\ Present(k)
    /\ k # Root /\ Parents(k) = {}

\* What the collector may remove: an invalidated key, or one no keyring
\* links any more (the thread keyring links Root).
Collectable(k) ==
    /\ Present(k)
    /\ keys[k].st = "invalidated" \/ (k # Root /\ Parents(k) = {})

KernelGC(k) ==
    /\ Collectable(k)
    /\ keys' = [keys EXCEPT ![k] = DeadKey]
    /\ links' = {l \in links : l[1] # k /\ l[2] # k}
    /\ last' = [Returned("gc", <<k>>, Unit) EXCEPT !.note = keys[k].st]
    /\ UNCHANGED <<gone, kernRest>>

(***************************************************************************)
(* Key::read, Key::description, Key::update: one object, no side effect    *)
(* on any other.                                                           *)
(***************************************************************************)
KeyRead(k) ==
    /\ keys[k].st # "none"
    /\ last' = Returned("read", <<k>>, Key_read(k))
    /\ gone' = Answered(k, Key_read(k))
    /\ UNCHANGED <<keys, links, kernRest>>

Describe(k) ==
    /\ keys[k].st # "none"
    /\ last' = Returned("description", <<k>>, description(k))
    /\ gone' = Answered(k, description(k))
    /\ UNCHANGED <<keys, links, kernRest>>

InitKern ==
    /\ keys = [k \in Serials |-> IF k = Root THEN RootKey ELSE NoKey]
    /\ links = {}
    /\ last = [op |-> "none", args |-> <<>>, res |-> Err(""), note |-> ""]
    /\ gone = {}
    /\ rd = IdleRead
    /\ auth = 0
    /\ mgrs = NoManagers
    /\ reqs = NoRequests
    /\ dp = IdleParse
    /\ kobj = <<>>
    /\ kerrno = ""
    /\ call = IdleCall

\* Payloads: user keys in a keyring and its sub-keyrings, added, replaced,
\* read back and described.
Next ==
    \/ \E r \in Serials, d \in Descs, p \in Payloads : AddKey(r, d, p)
    \/ \E r \in Serials, d \in Descs : AddKeyring(r, d)
    \/ \E k \in Serials : KeyRead(k)
    \/ \E k \in Serials : Describe(k)

Spec == InitKern /\ [][Next]_vars

\* Links: keyrings linked into and out of each other.
NextLink ==
    \/ \E r \in Serials, d \in Descs : AddKeyring(r, d)
    \/ \E r, k \in Serials : Link(r, k)
    \/ \E r, k \in Serials : Unlink(r, k)
    \/ \E k \in Serials : KernelGC(k)

SpecLink == InitKern /\ [][NextLink]_vars

\* Removal: keys invalidated or unlinked, collected later by the kernel.  It
\* starts from a keyring that add_key / add_keyring have populated: every key
\* is live, has the mask of a new key and hangs in one keyring made before it,
\* and no keyring holds two keys of the same type and description.
Populated ==
    /\ keys[Root] = RootKey
    /\ \A k \in Serials \ {Root} :
        /\ keys[k].st = "live"
        /\ keys[k].perm = DefaultPerm
        /\ keys[k].desc \in Descs
        /\ \/ keys[k].type = KEY_TYPE_KEYRING /\ keys[k].payload = <<>>
           \/ keys[k].type = KEY_TYPE_USER /\ keys[k].payload \in Payloads
        /\ \E r \in Serials : r < k /\ IsKeyring(r) /\ Parents(k) = {r}
    /\ Parents(Root) = {}
    /\ \A r, c1, c2 \in Serials :
        (c1 # c2 /\ <<r, c1>> \in links /\ <<r, c2>> \in links)
            => (keys[c1].type # keys[c2].type \/ keys[c1].desc # keys[c2].desc)

KeyRecs ==
    {RootKey} \cup
    {[st |-> "live", type |-> t, desc |-> d, payload |-> p, perm |-> DefaultPerm,
      timeout |-> 0, restricted |-> FALSE] :
        t \in {KEY_TYPE_KEYRING, KEY_TYPE_USER}, d \in Descs, p \in Payloads \cup {<<>>}}

InitGC ==
    /\ keys \in [Serials -> KeyRecs]
    /\ links \in SUBSET {l \in Serials \X Serials : l[1] < l[2]}
    /\ Populated
    /\ last = [op |-> "none", args |-> <<>>, res |-> Err(""), note |-> ""]
    /\ gone = {}
    /\ rd = IdleRead
    /\ auth = 0
    /\ mgrs = NoManagers
    /\ reqs = NoRequests
    /\ dp = IdleParse
    /\ kobj = <<>>
    /\ kerrno = ""
    /\ call = IdleCall

NextGC ==
    \/ \E r, k \in Serials : Unlink(r, k)
    \/ \E k \in Serials : Invalidate(k)
    \/ \E k \in Serials : KernelGC(k)
    \/ \E k \in Serials : KeyRead(k)
    \/ \E k \in Serials : Describe(k)

SpecGC == InitGC /\ [][NextGC]_vars

\* The collector runs eventually.
FairGC == SpecGC /\ \A k \in Serials : WF_vars(KernelGC(k))

(***************************************************************************)
(* Key::set_permissions / Keyring::set_permissions.                        *)
(***************************************************************************)
\* (mutant) a setperm that leaves the possessor's byte as it was.
setperm_keepPossessor(old, perms) ==
    (old \div KEY_POS_VIEW) * KEY_POS_VIEW + (perms % KEY_POS_VIEW)

\* KEYCTL_SETPERM: the mask given is the mask of the key.
setperm(old, perms) == perms

SetPermissions(k, perms) ==
    /\ keys[k].st # "none"
    /\ LET e == Lookup(k, KEY_USR_SETATTR, KEY_POS_SETATTR)
       IN  IF e # ""
           THEN /\ last' = Returned("set_permissions", <<k, perms>>, Err(e))
                /\ gone' = Answered(k, Err(e))
                /\ UNCHANGED <<keys, links>>
           ELSE /\ keys' = [keys EXCEPT ![k].perm = setperm(@, perms)]
                /\ last' = Returned("set_permissions", <<k, perms>>, Unit)
                /\ UNCHANGED <<links, gone>>
    /\ UNCHANGED kernRest

(***************************************************************************)
(* Key::revoke / Keyring::revoke, set_timeout and the kernel's clock.      *)
(***************************************************************************)
\* keyctl_revoke: needs the write permission; the key is revoked at once.
Revoke(k) ==
    /\ keys[k].st # "none"
    /\ LET e == Lookup(k, KEY_USR_WRITE, KEY_POS_WRITE)
       IN  IF e # ""
           THEN /\ last' = Returned("revoke", <<k>>, Err(e))
                /\ gone' = Answered(k, Err(e))
                /\ UNCHANGED <<keys, links>>
           ELSE /\ keys' = [keys EXCEPT ![k].st = "revoked"]
                /\ last' = Returned("revoke", <<k>>, Unit)
                /\ UNCHANGED <<links, gone>>
    /\ UNCHANGED kernRest

\* timeouts in seconds; 0 is "no expiration"
Timeouts == 0..MaxTimeout

\* keyctl_set_timeout: needs the setattr permission.
SetTimeout(k, t) ==
    /\ keys[k].st # "none"
    /\ LET e == Lookup(k, KEY_USR_SETATTR, KEY_POS_SETATTR)
       IN  IF e # ""
           THEN /\ last' = Returned("set_timeout", <<k, t>>, Err(e))
                /\ gone' = Answered(k, Err(e))
                /\ UNCHANGED <<keys, links>>
           ELSE /\ keys' = [keys EXCEPT ![k].timeout = t]
                /\ last' = Returned("set_timeout", <<k, t>>, Unit)
                /\ UNCHANGED <<links, gone>>
    /\ UNCHANGED kernRest

\* The clock: a second passes for a key with a timeout; at the last one the
\* key expires.
Tick(k) ==
    /\ Present(k) /\ keys[k].timeout > 0
    /\ keys' = [keys EXCEPT ![k].timeout = @ - 1,
                            ![k].st = IF keys[k].timeout = 1 THEN "expired" ELSE @]
    /\ last' = Returned("tick", <<k>>, Unit)
    /\ UNCHANGED <<links, gone, kernRest>>

(***************************************************************************)
(* Keyring::read: fetch the serials of the children, then describe each    *)
(* child to sort it into keys or keyrings.  Other processes and the        *)
(* kernel's collector run between the calls.                               *)
(***************************************************************************)
RECURSIVE SetToSeq(_)
SetToSeq(S) ==
    IF S = {} THEN <<>>
    ELSE LET m == CHOOSE x \in S : \A y \in S : x <= y
         IN  <<m>> \o SetToSeq(S \ {m})

\* (mutant) a keyring read that lists whatever hangs below the keyring.
keyctl_read_keyring_deep(r) ==
    IF Lapsed(r) # "" THEN Err(Lapsed(r))
    ELSE IF ~Present(r) THEN Err("ENOKEY")
    ELSE IF ~MayRead(r) THEN Err("EACCES")
    ELSE OkBytes(SetToSeq(UNION {Children(w) : w \in Below(r)}))

\* keyctl_read on a keyring: the serials of its links.
keyctl_read_keyring(r) ==
    IF Lapsed(r) # "" THEN Err(Lapsed(r))
    ELSE IF ~Present(r) THEN Err("ENOKEY")
    ELSE IF ~MayRead(r) THEN Err("EACCES")
    ELSE OkBytes(SetToSeq(Children(r)))

\* (mutant) a read that treats a vanished child like any other error.
SkipChild_never(res) == FALSE

\* The match arm Err(errno::Errno(libc::ENOKEY)) => {}: the child was
\* invalidated after the keyring was read; it is skipped.
SkipChild(res) == ~res.ok /\ res.err = "ENOKEY"

\* The first keyctl_read, with no buffer: the size of the list.
ReadProbe(r) ==
    /\ rd.pc = "idle"
    /\ keys[r].st # "none"
    /\ Present(r) => IsKeyring(r)
    /\ LET sz == keyctl_read_keyring(r)
       IN  rd' = IF ~sz.ok
                 THEN [IdleRead EXCEPT !.pc = "done", !.ring = r, !.res = sz]
                 ELSE [IdleRead EXCEPT !.pc = "fill", !.ring = r,
                                       !.cap = Len(sz.bytes)]
    /\ UNCHANGED <<kernVars, readRest>>

\* The second keyctl_read, into the buffer, and set_len.  A list that fits
\* is copied; one that does not is not copied and set_len exposes whatever
\* the allocation holds.
ReadFill ==
    /\ rd.pc = "fill"
    /\ LET actual == keyctl_read_keyring(rd.ring)
           n == Len(actual.bytes)
       IN  IF ~actual.ok
           THEN rd' = [rd EXCEPT !.pc = "done", !.res = actual]
           ELSE \E buffer \in IF n <= rd.cap THEN {actual.bytes}
                              ELSE [1..n -> Serials] :
                    rd' = IF buffer = <<>>
                          THEN [rd EXCEPT !.pc = "done", !.res = Unit]
                          ELSE [rd EXCEPT !.pc = "children",
                                          !.buffer = buffer, !.i = 1]
    /\ UNCHANGED <<kernVars, readRest>>

\* One turn of the loop over the fetched serials.
ReadChild ==
    /\ rd.pc = "children"
    /\ LET k == rd.buffer[rd.i]
           d == description(k)
           sorted == IF d.ok /\ d.desc.type_ = KEY_TYPE_KEYRING
                     THEN [rd EXCEPT !.keyrings = Append(@, k)]
                     ELSE IF d.ok
                     THEN [rd EXCEPT !.keys = Append(@, k)]
                     ELSE rd
       IN  rd' = IF ~d.ok /\ ~SkipChild(d)
                 THEN [rd EXCEPT !.pc = "done", !.res = d]
                 ELSE IF rd.i = Len(rd.buffer)
                 THEN [sorted EXCEPT !.pc = "done", !.res = Unit]
                 ELSE [sorted EXCEPT !.i = @ + 1]
    /\ UNCHANGED <<kernVars, readRest>>

ReadReturn ==
    /\ rd.pc = "done"
    /\ rd' = IdleRead
    /\ last' = Returned("keyring_read", <<rd.ring>>, rd.res)
    /\ gone' = Answered(rd.ring, rd.res)
    /\ UNCHANGED <<keys, links, readRest>>

\* The mask describe_key_no_perm sets: the mask of a new key without its
\* view bits.
NoViewPerm == DefaultPerm - KEY_POS_VIEW - KEY_USR_VIEW

\* Keyring::read against other processes that invalidate children and take
\* their view permission away, and the collector.
NextRead ==
    \/ \E r \in Serials : ReadProbe(r)
    \/ ReadFill
    \/ ReadChild
    \/ ReadReturn
    \/ \E k \in Serials \ {Root} : Invalidate(k)
    \/ \E k \in Serials \ {Root} : SetPermissions(k, NoViewPerm)
    \/ \E k \in Serials : KernelGC(k)

SpecRead == InitGC /\ [][NextRead]_vars

\* Keyring::read with nothing else running between its calls: the keyrings
\* are cleared, linked into and collected only while no read is under way.
NextClear ==
    \/ \E r \in Serials : ReadProbe(r)
    \/ ReadFill
    \/ ReadChild
    \/ ReadReturn
    \/ \E r \in Serials : rd.pc = "idle" /\ Clear(r)
    \/ \E r, k \in Serials : rd.pc = "idle" /\ Link(r, k)
    \/ \E k \in Serials : rd.pc = "idle" /\ KernelGC(k)

SpecClear == InitGC /\ [][NextClear]_vars

(***************************************************************************)
(* The instantiation protocol: Key::manage and KeyManager.                 *)
(* The kernel puts a key under construction for a request_key and hands    *)
(* the handler's thread an authorization key for it; the thread assumes    *)
(* the authority of one such key at a time.                                *)
(***************************************************************************)
\* The kernel starts constructing key k and attaches its authorization key
\* to the thread's keyrings.
KernelRequest(k) ==
    /\ reqs[k].st = "none"
    /\ reqs' = [reqs EXCEPT ![k].st = "construct"]
    /\ UNCHANGED <<auth, mgrs, last, mgrRest>>

\* an authorization key for k is attached to an available keyring
AuthKeyAvailable(k) == reqs[k].st = "construct"

FreeMgrs == {m \in Mgrs : mgrs[m].st = "none"}

\* Key::manage: keyctl_assume_authority(Some(id)), then KeyManager::new.
manage(k) ==
    /\ FreeMgrs # {}
    /\ IF ~AuthKeyAvailable(k)
       THEN /\ last' = Returned("manage", <<k>>, Err("ENOKEY"))
            /\ UNCHANGED <<auth, mgrs>>
       ELSE LET m == CHOOSE x \in FreeMgrs : \A y \in FreeMgrs : x <= y
            IN  /\ auth' = k
                /\ mgrs' = [mgrs EXCEPT ![m] = [st |-> "held", key |-> k, calls |-> 0]]
                /\ last' = Returned("manage", <<k>>, Ok(m))
    /\ UNCHANGED <<reqs, mgrRest>>

\* KeyManager::drop_authority: keyctl_assume_authority(None).
drop_authority ==
    /\ auth # 0
    /\ auth' = 0
    /\ last' = Returned("drop_authority", <<>>, Unit)
    /\ UNCHANGED <<mgrs, reqs, mgrRest>>

\* (mutant) a manager value that can be used after it was moved.
Held_afterMove(m) == mgrs[m].st # "none"

\* instantiate, reject and negate take self by value: only a manager that
\* has not been moved can be named in a call.
Held(m) == mgrs[m].st = "held"

\* (mutant) a kernel that accepts any assumed authority.
HasAuthority_any(k) == auth # 0

\* The kernel lets a thread construct k only under the authority of k's
\* authorization key.
HasAuthority(k) == auth = k

\* The manager is moved into the call.
Moved(m) == [mgrs EXCEPT ![m].st = "moved", ![m].calls = @ + 1]

\* The kernel's answer to keyctl_instantiate / keyctl_reject / keyctl_negate
\* on key k: the new state of k on success.
Construct(op, m, args, done) ==
    LET k == mgrs[m].key
    IN  /\ Held(m)
        /\ mgrs' = Moved(m)
        /\ IF ~HasAuthority(k) \/ reqs[k].st # "construct"
           THEN /\ last' = Returned(op, <<m>> \o args, Err("EPERM"))
                /\ UNCHANGED <<auth, reqs>>
           ELSE /\ reqs' = [reqs EXCEPT ![k] = done]
                /\ auth' = 0
                /\ last' = Returned(op, <<m>> \o args, Unit)
        /\ UNCHANGED mgrRest

\* the errors a handler rejects a key with
RejectErrors == {"EKEYREJECTED", "EKEYREVOKED"}

instantiate(m, ring, payload) ==
    Construct("instantiate", m, <<ring, payload>>,
              [st |-> "instantiated", payload |-> payload, ring |-> ring, error |-> "",
               timeout |-> 0])

\* A Duration: whole seconds, as the 32 bits above and the 32 bits below
\* 2^32, and the nanoseconds of the last second.
Durations ==
    {[top |-> 0, secs |-> s, nanos |-> n] : s \in 0..MaxTimeout, n \in {0, 1}}
        \cup {[top |-> 1, secs |-> 0, nanos |-> 0]}
OneSecond == [top |-> 0, secs |-> 1, nanos |-> 0]

\* timeout.as_secs() as TimeoutSeconds: the nanoseconds are dropped, and so
\* are the bits of the seconds that do not fit thirty-two bits.
TimeoutOf(timeout) == timeout.secs

\* KEYCTL_REJECT: the key is negative, answers requests with the error and
\* expires after the timeout.
RejectedKey(ring, secs, error) ==
    [st |-> "rejected", payload |-> <<>>, ring |-> ring, error |-> error,
     timeout |-> secs]

\* (mutant) a negate that does not hand the timeout on.
NegatedKey_noTimeout(ring, secs) == RejectedKey(ring, 0, "ENOKEY")

\* KEYCTL_NEGATE: rejected with ENOKEY.
NegatedKey(ring, secs) == RejectedKey(ring, secs, "ENOKEY")

reject(m, ring, timeout, error) ==
    Construct("reject", m, <<ring, timeout, error>>,
              RejectedKey(ring, TimeoutOf(timeout), error))

negate(m, ring, timeout) ==
    Construct("negate", m, <<ring, timeout>>, NegatedKey(ring, TimeoutOf(timeout)))

\* request_key for a key that was resolved: a negative key answers with its
\* error, an instantiated one is found.
Request(k) ==
    /\ reqs[k].st \in {"rejected", "instantiated"}
    /\ last' = Returned("request", <<k>>,
                        IF reqs[k].st = "rejected" THEN Err(reqs[k].error) ELSE Ok(k))
    /\ UNCHANGED <<auth, mgrs, reqs, mgrRest>>

\* A second passes for a negative key; after the last one the key is gone
\* and a request starts over.
Elapse(k) ==
    /\ reqs[k].st = "rejected"
    /\ reqs' = [reqs EXCEPT ![k] = IF reqs[k].timeout <= 1 THEN NoRequest
                                   ELSE [@ EXCEPT !.timeout = @ - 1]]
    /\ last' = Returned("elapse", <<k>>, Unit)
    /\ UNCHANGED <<auth, mgrs, mgrRest>>

\* A manager that goes out of scope without a call.
DropManager(m) ==
    /\ Held(m)
    /\ mgrs' = [mgrs EXCEPT ![m].st = "moved"]
    /\ UNCHANGED <<auth, reqs, last, mgrRest>>

InitMgr == InitKern

NextMgr ==
    \/ \E k \in Serials : KernelRequest(k)
    \/ \E k \in Serials : manage(k)
    \/ drop_authority
    \/ \E m \in Mgrs, ring \in {Root}, p \in Payloads : instantiate(m, ring, p)
    \/ \E m \in Mgrs, ring \in {Root}, e \in RejectErrors : reject(m, ring, OneSecond, e)
    \/ \E m \in Mgrs, ring \in {Root} : negate(m, ring, OneSecond)
    \/ \E m \in Mgrs : DropManager(m)

SpecMgr == InitMgr /\ [][NextMgr]_vars

\* Requests rejected and negated with any timeout, asked for again, and
\* expiring.
NextNegate ==
    \/ \E k \in Serials \ {Root} : KernelRequest(k)
    \/ \E k \in Serials \ {Root} : manage(k)
    \/ \E m \in Mgrs, ring \in {Root}, d \in Durations,
          e \in RejectErrors \cup {"ENOKEY"} : reject(m, ring, d, e)
    \/ \E m \in Mgrs, ring \in {Root}, d \in Durations : negate(m, ring, d)
    \/ \E k \in Serials \ {Root} : Request(k)
    \/ \E k \in Serials \ {Root} : Elapse(k)

SpecNegate == InitMgr /\ [][NextNegate]_vars

(***************************************************************************)
(* Reading under changed permission masks (tests/reading.rs).              *)
(***************************************************************************)
\* The masks the tests set, and the mask of a new key.
PermChoices ==
    { DefaultPerm,
      KEY_USR_ALL - KEY_USR_READ,
      KEY_USR_ALL - KEY_USR_READ - KEY_USR_SEARCH,
      KEY_USR_ALL - KEY_USR_SEARCH,
      KEY_POS_ALL - KEY_POS_READ,
      KEY_POS_ALL + KEY_USR_ALL - KEY_USR_READ }

NextPerm ==
    \/ \E k \in Serials \ {Root}, perms \in PermChoices : SetPermissions(k, perms)
    \/ \E k \in Serials : KeyRead(k)
    \/ \E r, k \in Serials : Unlink(r, k)

SpecPerm == InitGC /\ [][NextPerm]_vars

(***************************************************************************)
(* Description::parse.  Strings are sequences of characters.               *)
(***************************************************************************)
\* str::split: the pieces between the separators, in order.
RECURSIVE split(_, _)
split(str, sep) ==
    IF \A i \in 1..Len(str) : str[i] # sep THEN <<str>>
    ELSE LET i == CHOOSE j \in 1..Len(str) :
                      str[j] = sep /\ \A h \in 1..(j - 1) : str[h] # sep
         IN  <<SubSeq(str, 1, i - 1)>> \o split(SubSeq(str, i + 1, Len(str)), sep)

\* (mutant) pieces left in the order of the string.
reverse_not(pieces) == pieces

\* Vec::reverse
reverse(pieces) == [i \in 1..Len(pieces) |-> pieces[Len(pieces) + 1 - i]]

\* (mutant) a parser that accepts five fields and nothing else.
parse_exactlyFive(desc) ==
    LET pieces == reverse(split(desc, ";"))
        len == Len(pieces)
    IN  IF len # 5 THEN [NoParse EXCEPT !.kind = "None"]
        ELSE LET bits == from_str_radix(pieces[2], 16)
                 uid == from_str_radix(pieces[4], 10)
                 gid == from_str_radix(pieces[3], 10)
             IN  IF ~bits.ok \/ ~uid.ok \/ ~gid.ok
                 THEN [NoParse EXCEPT !.kind = "panic"]
                 ELSE [kind |-> "Some",
                       type_ |-> pieces[5],
                       uid |-> [hi |-> uid.hi, lo |-> uid.lo],
                       gid |-> [hi |-> gid.hi, lo |-> gid.lo],
                       perms |-> from_bits_truncate(bits),
                       description |-> pieces[1]]

\* Description::parse: None, Some(Description), or the panic of an unwrap.
parse(desc) ==
    LET pieces == reverse(split(desc, ";"))
        len == Len(pieces)
    IN  IF len < 5 THEN [NoParse EXCEPT !.kind = "None"]
        ELSE LET bits == from_str_radix(pieces[2], 16)
                 uid == from_str_radix(pieces[4], 10)
                 gid == from_str_radix(pieces[3], 10)
             IN  IF ~bits.ok \/ ~uid.ok \/ ~gid.ok
                 THEN [NoParse EXCEPT !.kind = "panic"]
                 ELSE [kind |-> "Some",
                       type_ |-> pieces[5],
                       uid |-> [hi |-> uid.hi, lo |-> uid.lo],
                       gid |-> [hi |-> gid.hi, lo |-> gid.lo],
                       perms |-> from_bits_truncate(bits),
                       description |-> pieces[1]]

\* the strings handed to the parser
RECURSIVE join(_)
join(fields) ==
    IF Len(fields) = 1 THEN fields[1]
    ELSE fields[1] \o <<";">> \o join(Tail(fields))

MaxExtra == 1
Names == {<<"m", "y", "d", "e", "s", "c">>, <<"u", "s", "e", "r">>, <<>>}
Numbers == {<<"1", "0", "0", "0">>, <<"0">>, <<"+", "7">>, <<"x">>, <<"4", "2", "9", "4", "9", "6", "7", "2", "9", "6">>}
Masks == {<<"3", "f", "0", "1", "0", "0", "0", "0">>, <<"F", "F", "f", "f", "f", "f", "f", "f">>, <<"3", "f">>, <<>>}
FiveFields == {<<a, b, c, d, e>> : a \in Names, b \in Numbers, c \in Numbers,
                                   d \in Masks, e \in Names}
ParseInputs ==
    {join(extra \o five) : extra \in SeqsUpTo({<<"u", "s", "e", "r">>}, MaxExtra), five \in FiveFields}
        \cup {join(Tail(five)) : five \in FiveFields}

InitParse ==
    /\ dp \in {[IdleParse EXCEPT !.desc = desc] : desc \in ParseInputs}
    /\ keys = [k \in Serials |-> NoKey]
    /\ links = {}
    /\ last = [op |-> "none", args |-> <<>>, res |-> Err(""), note |-> ""]
    /\ gone = {}
    /\ rd = IdleRead
    /\ auth = 0
    /\ mgrs = NoManagers
    /\ reqs = NoRequests
    /\ kobj = <<>>
    /\ kerrno = ""
    /\ call = IdleCall

Parse ==
    /\ dp.pc = "idle"
    /\ dp' = [dp EXCEPT !.pc = "done", !.res = parse(dp.desc)]
    /\ UNCHANGED parseRest

\* Keyring::description / Key::description on the string description_raw
\* returned: Description::parse(&desc).ok_or(EINVAL).  A panic returns nothing.
ok_or_EINVAL ==
    /\ dp.pc = "done"
    /\ dp.res.kind # "panic"
    /\ dp' = [dp EXCEPT !.pc = "returned",
                        !.err = IF dp.res.kind = "None" THEN "EINVAL" ELSE ""]
    /\ UNCHANGED parseRest

NextParse == Parse \/ ok_or_EINVAL

SpecParse == InitParse /\ [][NextParse]_vars

(***************************************************************************)
(* Linking keys and keyrings that exist already (tests/link.rs).           *)
(***************************************************************************)
NextRelink ==
    \/ \E r, k \in Serials : Link(r, k)
    \/ \E r, k \in Serials : Unlink(r, k)
    \/ \E k \in Serials : KernelGC(k)

SpecRelink == InitGC /\ [][NextRelink]_vars

(***************************************************************************)
(* Chains and stacks of nested keyrings (tests/link.rs): a keyring is      *)
(* added below the one added last or, to start a stack, into the test      *)
(* keyring; the first keyring of a stack, or the test keyring, is linked   *)
(* into the last keyring of a stack.                                       *)
(***************************************************************************)
MaxChain == 11
ChainSerials == 1..MaxChain

InitChain ==
    /\ keys = [k \in ChainSerials |-> IF k = Root THEN RootKey ELSE NoKey]
    /\ links = {}
    /\ last = [op |-> "none", args |-> <<>>, res |-> Err(""), note |-> ""]
    /\ gone = {}
    /\ rd = IdleRead
    /\ auth = 0
    /\ mgrs = NoManagers
    /\ reqs = NoRequests
    /\ dp = IdleParse
    /\ kobj = <<>>
    /\ kerrno = ""
    /\ call = IdleCall

\* the keyrings at the end of a stack
Leaves == {r \in DOMAIN keys : Present(r) /\ IsKeyring(r) /\ Children(r) = {}}

\* the keyring added last
Newest == CHOOSE n \in DOMAIN keys :
              /\ keys[n].st # "none"
              /\ \A m \in DOMAIN keys : keys[m].st # "none" => m <= n

NextChain ==
    \/ \E r \in (Leaves \cap {Newest}) \cup {Root} :
        /\ Cardinality(Children(r)) < (IF r = Root THEN 2 ELSE 1)
        /\ AddKeyring(r, IF Children(r) = {} THEN "d1" ELSE "d2")
    \/ \E r \in Leaves, k \in Children(Root) \cup {Root} : Link(r, k)

SpecChain == InitChain /\ [][NextChain]_vars

(***************************************************************************)
(* Searching: Keyring::search_for_key / search_for_keyring.                *)
(***************************************************************************)
Searchable(k) == May(k, KEY_USR_SEARCH, KEY_POS_SEARCH)

\* the keyrings a search enters
SearchableRings ==
    {c \in DOMAIN keys : keys[c].st = "live" /\ IsKeyring(c) /\ Searchable(c)}

\* The keyrings a search from the keyrings S walks through: a nested
\* keyring without the search permission is not entered.
RECURSIVE Walked(_, _)
Walked(S, rings) ==
    LET more == S \cup {c \in rings : \E w \in S : <<w, c>> \in links}
    IN  IF more = S THEN S ELSE Walked(more, rings)

\* the keys of the type and description in the keyrings walked through
Matches(r, type, d) ==
    LET walked == Walked({r}, SearchableRings)
    IN  {c \in DOMAIN keys :
            /\ keys[c].st = "live" /\ keys[c].type = type /\ keys[c].desc = d
            /\ \E w \in walked : <<w, c>> \in links}

\* (mutant) a search that does not ask for the search permission on the match.
Findable_anyMatch(r, type, d) == Matches(r, type, d)

\* ... of which only those with the search permission are found.
Findable(r, type, d) == {c \in Matches(r, type, d) : Searchable(c)}

\* (mutant) a search that looks at the links of the keyring only.
search_errno_flat(r, type, d) ==
    IF ~Present(r) THEN "ENOKEY"
    ELSE IF ~IsKeyring(r) THEN "ENOTDIR"
    ELSE IF ~Searchable(r) THEN "EACCES"
    ELSE IF Matches(r, type, d) \cap Children(r) = {} THEN "ENOKEY"
    ELSE IF Findable(r, type, d) = {} THEN "EACCES"
    ELSE ""

\* The errno of the search proper, "" if something is found.
search_errno(r, type, d) ==
    IF ~Present(r) THEN "ENOKEY"
    ELSE IF ~IsKeyring(r) THEN "ENOTDIR"
    ELSE IF ~Searchable(r) THEN "EACCES"
    ELSE IF Matches(r, type, d) = {} THEN "ENOKEY"
    ELSE IF Findable(r, type, d) = {} THEN "EACCES"
    ELSE ""

\* (mutant) a search that skips the link when it is not permitted.
dest_errno_lenient(dest, found) == ""

\* The errno of linking what was found into the destination (0 = none).
dest_errno(dest, found) ==
    IF dest = 0 THEN ""
    ELSE LET e == LookupRing(dest)
             l == Lookup(found, KEY_USR_LINK, KEY_POS_LINK)
         IN  IF e # "" THEN e
             ELSE IF l # "" THEN l
             ELSE IF Restricted(dest) THEN "EPERM"
             ELSE DetectCycle(found, dest)

\* keyctl_search(ringid, type, description, destringid)
keyctl_search(r, type, d, dest) ==
    /\ keys[r].st # "none"
    /\ dest # 0 => keys[dest].st # "none"
    /\ LET args == <<r, type, d, dest>>
           e == search_errno(r, type, d)
       IN  IF e # ""
           THEN /\ last' = Returned("search", args, Err(e))
                /\ gone' = Answered(r, Err(e))
                /\ UNCHANGED <<keys, links>>
           ELSE \E found \in Findable(r, type, d) :
                    LET le == dest_errno(dest, found)
                    IN
                    IF le # ""
                    THEN /\ last' = Returned("search", args, Err(le))
                         /\ UNCHANGED <<keys, links, gone>>
                    ELSE /\ links' = IF dest = 0 THEN links
                                     ELSE (links \ {<<dest, c>> : c \in SameKey(dest, type, d)})
                                              \cup {<<dest, found>>}
                         /\ last' = Returned("search", args, Ok(found))
                         /\ UNCHANGED <<keys, gone>>
    /\ UNCHANGED kernRest

\* Keyring::search_for_key::<User> and Keyring::search_for_keyring: the
\* keyring searched is also the destination.
search_for_key(r, d) == keyctl_search(r, KEY_TYPE_USER, d, r)
search_for_keyring(r, d) == keyctl_search(r, KEY_TYPE_KEYRING, d, r)

\* ... and with the destination the caller gives, or none.
search_into(r, type, d, dest) == keyctl_search(r, type, d, dest)

\* masks with one of the search, link and write permissions taken away
SearchPerms ==
    { DefaultPerm,
      DefaultPerm - KEY_POS_SEARCH,
      DefaultPerm - KEY_POS_LINK,
      DefaultPerm - KEY_POS_WRITE }

\* keys and keyrings of one description, below the test keyring
InitSearch ==
    /\ InitGC
    /\ \A k \in Serials \ {Root} :
           keys[k].desc = "d1" /\ keys[k].payload \in {<<>>, <<1>>}

NextSearch ==
    \/ \E r \in Serials, d \in Descs : search_for_key(r, d)
    \/ \E r \in Serials, d \in Descs : search_for_keyring(r, d)
    \/ \E type \in {KEY_TYPE_USER, KEY_TYPE_KEYRING}, d \in Descs,
          dest \in {0} \cup (Serials \ {Root}) : search_into(Root, type, d, dest)
    \/ \E k \in Serials \ {Root}, perms \in SearchPerms :
          /\ \A j \in Serials \ {k} : keys[j].perm = DefaultPerm
          /\ SetPermissions(k, perms)

SpecSearch == InitSearch /\ [][NextSearch]_vars

\* Keyring::restrict_all: keyctl_restrict_keyring(id, Restriction::AllLinks).
\* Needs the setattr permission; a keyring is restricted once.
restrict_all(r) ==
    /\ keys[r].st # "none"
    /\ LET e == IF Lookup(r, KEY_USR_SETATTR, KEY_POS_SETATTR) # ""
                THEN Lookup(r, KEY_USR_SETATTR, KEY_POS_SETATTR)
                ELSE IF ~IsKeyring(r) THEN "ENOTDIR"
                ELSE IF Restricted(r) THEN "EEXIST"
                ELSE ""
       IN  IF e # ""
           THEN /\ last' = Returned("restrict_all", <<r>>, Err(e))
                /\ gone' = Answered(r, Err(e))
                /\ UNCHANGED <<keys, links>>
           ELSE /\ keys' = [keys EXCEPT ![r].restricted = TRUE]
                /\ last' = Returned("restrict_all", <<r>>, Unit)
                /\ UNCHANGED <<links, gone>>
    /\ UNCHANGED kernRest

\* Keyrings filled, linked, emptied and collected, and restricted at any
\* moment.
NextRestrict ==
    \/ \E r \in Serials : AddKey(r, "d1", <<1>>)
    \/ \E r \in Serials : AddKeyring(r, "d1")
    \/ \E r, k \in Serials : r # k /\ Link(r, k)
    \/ \E r, k \in Serials : r # k /\ Unlink(r, k)
    \/ \E r \in Serials : restrict_all(r)
    \/ \E k \in Serials : KernelGC(k)

SpecRestrict == InitKern /\ [][NextRestrict]_vars

\* The masks tests/permitting.rs sets: every zone without its setattr bit,
\* the owner's setattr and view bits with the group's or the others' zone,
\* and the mask of a new key.
PermAll == KEY_POS_ALL + KEY_USR_ALL + KEY_GRP_ALL + KEY_OTH_ALL
SetattrPerms ==
    { DefaultPerm,
      PermAll,
      PermAll - KEY_POS_SETATTR - KEY_USR_SETATTR - KEY_GRP_SETATTR - KEY_OTH_SETATTR,
      KEY_USR_SETATTR + KEY_USR_VIEW + KEY_GRP_ALL,
      KEY_USR_SETATTR + KEY_USR_VIEW + KEY_OTH_ALL,
      KEY_USR_VIEW }

NextSetperm ==
    \/ \E k \in Serials \ {Root}, perms \in SetattrPerms : SetPermissions(k, perms)
    \/ \E k \in Serials : Describe(k)

SpecSetperm == InitSearch /\ [][NextSetperm]_vars

\* Handles and their clones against revocation, timeouts, invalidation and
\* the collector.
NextRevoke ==
    \/ \E k \in Serials \ {Root} : Revoke(k)
    \/ \E k \in Serials : KeyRead(k)
    \/ \E k \in Serials : Describe(k)
    \/ \E k \in Serials \ {Root}, t \in Timeouts : SetTimeout(k, t)
    \/ \E k \in Serials \ {Root} : Tick(k)
    \/ \E k \in Serials \ {Root} : Invalidate(k)
    \/ \E k \in Serials : KernelGC(k)
    \/ \E r \in Serials : ReadProbe(r)
    \/ ReadFill
    \/ ReadChild
    \/ ReadReturn

SpecRevoke == InitSearch /\ [][NextRevoke]_vars

(***************************************************************************)
(* From the kernel's return value to a serial.  The return value is a      *)
(* c_long of 64 bits, kept as the upper 32 bits (top, signed) and the      *)
(* lower 32 bits read as an i32 (low).                                     *)
(***************************************************************************)
MaxI32 == 2147483647

CLongs == {[top |-> t, low |-> l] : t \in {-1, 0, 1}, l \in {-2, -1, 0, 1, 2, MaxI32}}

\* the failure sentinel -1
MinusOne == [top |-> -1, low |-> -1]

\* i32::try_from(c_long) succeeds: the upper bits are the sign of the lower.
fits_i32(res) == (res.top = 0 /\ res.low >= 0) \/ (res.top = -1 /\ res.low < 0)

\* a panic (expect / unwrap on nothing)
Aborted == Err("panic")

\* (mutant) a conversion that keeps the low 32 bits of whatever it is given.
keyring_serial_wrapping(res) ==
    IF res.low = 0 THEN Aborted ELSE Ok(res.low)

\* keyutils-raw: KeyringSerial::new(res.try_into().expect(..)).expect(..)
keyring_serial(res) ==
    IF ~fits_i32(res) THEN Aborted
    ELSE IF res.low = 0 THEN Aborted
    ELSE Ok(res.low)

\* keyutils-raw: check_syscall(..).map(keyring_serial)
check_syscall(res) ==
    IF res = MinusOne THEN Err("ENOKEY") ELSE keyring_serial(res)

\* api.rs: KeyringSerial::new(res as i32).unwrap(); `as i32` keeps the low
\* 32 bits.
into_serial(res) ==
    IF res.low = 0 THEN Aborted ELSE Ok(res.low)

\* api.rs: check_call_key / check_call_keyring on the serial: -1 is the
\* failure sentinel.
check_call_key(serial) ==
    IF ~serial.ok THEN serial
    ELSE IF serial.val = -1 THEN Err("ENOKEY")
    ELSE serial

\* The serial-returning functions of keyutils-raw ...
RawSerialOps == {"add_key", "request_key", "keyctl_search", "keyctl_get_keyring_id",
                 "keyctl_join_session_keyring", "keyctl_get_persistent"}
\* ... and the methods of api.rs that convert the return value themselves.
ApiSerialOps == {"search_for_key", "search_for_keyring", "attach_persistent"}

RawSerialCall(op, res) ==
    /\ last' = Returned(op, <<res>>, check_syscall(res))
    /\ UNCHANGED <<keys, links, gone, kernRest>>

ApiSerialCall(op, res) ==
    /\ last' = Returned(op, <<res>>, check_call_key(into_serial(res)))
    /\ UNCHANGED <<keys, links, gone, kernRest>>

NextSerial ==
    \/ \E op \in RawSerialOps, res \in CLongs : RawSerialCall(op, res)
    \/ \E op \in ApiSerialOps, res \in CLongs : ApiSerialCall(op, res)

SpecSerial == InitKern /\ [][NextSerial]_vars

(***************************************************************************)
(* Keyring::set_timeout / Key::set_timeout with a Duration.                *)
(***************************************************************************)
\* keyctl_set_timeout(self.id, timeout.as_secs() as TimeoutSeconds)
set_timeout(k, timeout) == SetTimeout(k, TimeoutOf(timeout))

NextTimeout ==
    \/ \E k \in Serials \ {Root}, timeout \in Durations : set_timeout(k, timeout)
    \/ \E k \in Serials \ {Root} : Tick(k)

SpecTimeout == InitSearch /\ [][NextTimeout]_vars

(***************************************************************************)
(* The key types (src/src/keytypes) and the calls that pass their name to  *)
(* the kernel.                                                             *)
(***************************************************************************)
KeyTypes == {"User", "Logon", "Keyring", "Asymmetric", "Trusted", "Encrypted",
             "DnsResolver", "BigKey", "Blacklist", "RxRPC", "RxRPCServer"}

\* KeyType::name() of each type
name(K) ==
    CASE K = "User"        -> KEY_TYPE_USER
      [] K = "Logon"       -> "logon"
      [] K = "Keyring"     -> KEY_TYPE_KEYRING
      [] K = "Asymmetric"  -> "asymmetric"
      [] K = "Trusted"     -> "trusted"
      [] K = "Encrypted"   -> "encrypted"
      [] K = "DnsResolver" -> "dns_resolver"
      [] K = "BigKey"      -> "big_key"
      [] K = "Blacklist"   -> "keyring"
      [] K = "RxRPC"       -> "rxrpc"
      [] K = "RxRPCServer" -> "rxrpc_s"

\* Keyring::add_key::<K>: add_key_impl passes K::name(); a keyring and a
\* blacklist entry have the payload ().
add_key_impl(r, K, d) ==
    /\ add_key(r, name(K), d, IF K \in {"Keyring", "Blacklist"} THEN <<>> ELSE <<1>>)
    /\ UNCHANGED kernRest

\* an Option<&str>: <<>> is None
Infos == {<<>>, <<"info">>}

\* The keys a request_key for (type, description) finds: the caller's
\* keyrings hold the test keyring, and every linked key hangs below it.
Requestable(type, d) ==
    {c \in DOMAIN keys : /\ keys[c].st = "live" /\ Parents(c) # {}
                         /\ keys[c].type = type /\ keys[c].desc = d}

\* request_impl::<K>(description, info, id): the request_key syscall with
\* K::name().  There is no upcall program: what is not found is ENOKEY.
request_impl(K, d, info, id) ==
    LET found == Requestable(name(K), d)
    IN  /\ last' = Returned("request_key", <<name(K), d, info, id>>,
                            IF found = {} THEN Err("ENOKEY")
                            ELSE Ok(CHOOSE c \in found : TRUE))
        /\ UNCHANGED <<keys, links, gone, kernRest>>

\* Key::request::<K>(description)
Key_request(K, d) == request_impl(K, d, <<>>, 0)

\* Key::request_with_fallback::<K>(description, info)
Key_request_with_fallback(K, d, info) == request_impl("Keyring", d, <<info>>, 0)

\* A key of any type added to an empty keyring (the test keyring, or a
\* keyring added to it), requested, and the keyring enumerated right after
\* the add.
NextTypes ==
    \/ \E r \in Serials, K \in KeyTypes, d \in Descs :
          rd.pc = "idle" /\ Children(r) = {} /\ add_key_impl(r, K, d)
    \/ \E K \in KeyTypes, d \in Descs : rd.pc = "idle" /\ Key_request(K, d)
    \/ \E K \in KeyTypes, d \in Descs :
          rd.pc = "idle" /\ Key_request_with_fallback(K, d, "info")
    \/ \E r \in Serials : last.op = "add_key" /\ last.args[1] = r /\ ReadProbe(r)
    \/ ReadFill
    \/ ReadChild
    \/ ReadReturn

SpecTypes == InitKern /\ [][NextTypes]_vars

(***************************************************************************)
(* Claims.                                                                 *)
(***************************************************************************)
AddedUserKey ==
    /\ last.op = "add_key"
    /\ last.args[2] = KEY_TYPE_USER
    /\ last.res.ok

ReplacingAdd(r, d, p, c) ==
    /\ c \in Children(r) /\ Present(c)
    /\ keys[c].type = KEY_TYPE_USER /\ keys[c].desc = d
    /\ May(c, KEY_USR_WRITE, KEY_POS_WRITE)
    /\ LookupRing(r) = ""
    /\ last'.op = "add_key"
    /\ last'.args = <<r, KEY_TYPE_USER, d, p>>

\* C3 (as stated): replace-on-add returns the first handle, r still has
\* exactly one child with that description, and both handles read p.
C3_ReplaceOnAdd_AnyType ==
    [][\A r, c \in Serials, d \in Descs, p \in Payloads :
        ReplacingAdd(r, d, p, c) =>
            /\ last'.res = Ok(c)
            /\ Cardinality({x \in Children(r)' : keys'[x].desc = d}) = 1
            /\ Key_read(c)' = OkBytes(p)
            /\ (Key_read(last.res.val) = OkBytes(p))']_vars

\* C3 (amended): ... r still has exactly one child of type user with that
\* description (a keyring of the same description is another child) ...
C3_ReplaceOnAdd ==
    [][\A r, c \in Serials, d \in Descs, p \in Payloads :
        ReplacingAdd(r, d, p, c) =>
            /\ last'.res = Ok(c)
            /\ Cardinality({x \in Children(r)' :
                    keys'[x].desc = d /\ keys'[x].type = KEY_TYPE_USER}) = 1
            /\ Key_read(c)' = OkBytes(p)
            /\ (Key_read(last.res.val) = OkBytes(p))']_vars

\* a second add_key has replaced the payload of the key the first one made
C3_Witness ==
    /\ AddedUserKey
    /\ last.note = "updated"
    /\ \E x \in Children(last.args[1]) :
          x # last.res.val /\ keys[x].desc = last.args[3]
    /\ Key_read(last.res.val) = OkBytes(last.args[4])

\* The keyrings reachable from keyring k through one link or more.
ReachableFrom(k) == UNION {Level({k}, n) : n \in 1..MaxKeys}

Acyclic == \A k \in Serials : k \notin ReachableFrom(k)

\* The step link_keyring(k) on r, both found and permitted, that would close
\* a cycle: r is k or is already reachable from k.
CycleClosingLink(r, k) ==
    /\ LookupRing(r) = ""
    /\ Lookup(k, KEY_USR_LINK, KEY_POS_LINK) = ""
    /\ IsKeyring(k)
    /\ Level({k}, maxdepth) = {}
    /\ r = k \/ r \in ReachableFrom(k)
    /\ last'.op = "link"
    /\ last'.args = <<r, k>>

\* C4: a link_keyring that would make a keyring reachable from itself fails
\* with EDEADLK and adds no link; no keyring is ever reachable from itself.
C4_NoCycle ==
    /\ []Acyclic
    /\ [][\A r, k \in Serials :
            CycleClosingLink(r, k) => (last'.res = Err("EDEADLK") /\ links' = links)]_vars

\* an indirect cycle was refused
C4_Witness ==
    /\ last.op = "link"
    /\ last.res = Err("EDEADLK")
    /\ last.args[1] # last.args[2]
    /\ last.args[1] \in ReachableFrom(last.args[2])

\* The serials the step `last` was a library call on.
CalledOn ==
    CASE last.op \in {"link", "unlink"} -> {last.args[1], last.args[2]}
      [] last.op \in {"add_key", "invalidate", "read", "description"} -> {last.args[1]}
      [] OTHER -> {}

IsENOKEY(res) == ~res.ok /\ res.err = "ENOKEY"

\* Between invalidate() and the collection: success or EACCES only.
C5_Pending ==
    \A k \in Serials : keys[k].st = "invalidated" =>
        /\ description(k).ok \/ description(k).err = "EACCES"
        /\ Key_read(k).ok \/ Key_read(k).err = "EACCES"

\* Once ENOKEY has been returned for a serial, nothing on it succeeds.
C5_Final ==
    \A k \in gone :
        /\ IsENOKEY(description(k)) /\ IsENOKEY(Key_read(k))
        /\ k \in CalledOn => ~last.res.ok

\* C5: after invalidate() has succeeded, and with the collector running
\* eventually, description() and read() eventually return ENOKEY; until then
\* they return success or EACCES, and after ENOKEY nothing succeeds.
C5_AsyncDeletion ==
    /\ [](C5_Pending /\ C5_Final)
    /\ \A k \in Serials :
         (keys[k].st = "invalidated")
            ~> (IsENOKEY(description(k)) /\ IsENOKEY(Key_read(k)))

\* an invalidated key has just been collected and answers ENOKEY
C5_Witness ==
    /\ last.op = "gc"
    /\ last.note = "invalidated"
    /\ IsENOKEY(description(last.args[1]))
    /\ IsENOKEY(Key_read(last.args[1]))

\* the serials of a list
Elems(seq) == {seq[j] : j \in 1..Len(seq)}

\* C6: a Keyring::read whose fetch succeeded returns Ok unless a child's
\* describe failed with an error other than ENOKEY; an Ok result holds every
\* fetched child that has not been collected meanwhile, each once, keyrings
\* apart from keys; an Err result is the parent's error or a child's
\* non-ENOKEY error.
C6_ReadSkipsCollected ==
    rd.pc = "done" =>
        IF rd.res.ok
        THEN /\ Elems(rd.keys) \cup Elems(rd.keyrings) \subseteq Elems(rd.buffer)
             /\ \A k \in Elems(rd.buffer) :
                    Present(k) => k \in Elems(rd.keys) \cup Elems(rd.keyrings)
             /\ Len(rd.keys) + Len(rd.keyrings)
                    = Cardinality(Elems(rd.keys) \cup Elems(rd.keyrings))
             /\ \A k \in Elems(rd.keyrings) : Present(k) => IsKeyring(k)
             /\ \A k \in Elems(rd.keys) : Present(k) => ~IsKeyring(k)
        ELSE \/ rd.i = 0
             \/ rd.res.err # "ENOKEY"

\* a read has returned Ok although a child it fetched was collected before
\* it was described, with the other child in the result
C6_Witness ==
    /\ rd.pc = "done"
    /\ rd.res.ok
    /\ \E k \in Elems(rd.buffer) : k \notin Elems(rd.keys) \cup Elems(rd.keyrings)
    /\ Len(rd.keys) + Len(rd.keyrings) >= 1

ResolveOps == {"instantiate", "reject", "negate"}

\* manager m is named in a call of instantiate, reject or negate in this step
Resolves(m) == mgrs'[m].calls = mgrs[m].calls + 1

\* C7: a manager comes into being only in a successful Key::manage, which
\* has assumed the authority of its key; each manager is the receiver of at
\* most one instantiate, reject or negate, and once it has been, whether the
\* call returned Ok or Err, it is never named in a call again.
C7_OneShot ==
    /\ [](\A m \in Mgrs : /\ mgrs[m].calls <= 1
                          /\ mgrs[m].calls = 1 => mgrs[m].st = "moved")
    /\ [][\A m \in Mgrs :
            /\ (mgrs[m].st = "none" /\ mgrs'[m].st # "none") =>
                   /\ last'.op = "manage" /\ last'.res.ok /\ last'.res.val = m
                   /\ mgrs'[m].st = "held"
                   /\ auth' = mgrs'[m].key
            /\ Resolves(m) =>
                   /\ mgrs[m].st = "held" /\ mgrs'[m].st = "moved"
                   /\ last'.op \in ResolveOps /\ last'.args[1] = m
            /\ mgrs[m].st = "moved" => mgrs'[m] = mgrs[m]]_vars

\* a manager has been consumed by a call that returned Err, and another by
\* a call that returned Ok
C7_Witness ==
    /\ last.op \in ResolveOps
    /\ ~last.res.ok
    /\ mgrs[last.args[1]].calls = 1
    /\ \E m \in Mgrs : mgrs[m].calls = 1 /\ reqs[mgrs[m].key].st = "instantiated"

\* manager m is held for a key the thread no longer has the authority of
Stale(m) == mgrs[m].st = "held" /\ auth # mgrs[m].key

\* C8: a successful manage() on a second key leaves every manager held for
\* another key without authority, and instantiate, reject or negate through
\* a manager without authority returns EPERM and leaves its key under
\* construction.
C8_SecondManageInvalidates ==
    [][\A m \in Mgrs :
        /\ \A m2 \in Mgrs \ {m} :
               (/\ mgrs[m].st = "held"
                /\ mgrs[m2].st = "none" /\ mgrs'[m2].st = "held"
                /\ mgrs'[m2].key # mgrs[m].key) => (Stale(m))'
        /\ (Stale(m) /\ Resolves(m)) =>
               /\ last'.res = Err("EPERM")
               /\ reqs' = reqs
               /\ AuthKeyAvailable(mgrs[m].key) => (AuthKeyAvailable(mgrs[m].key))']_vars

\* the manager of K1 was used after a manager for K2 was made: the call
\* returned EPERM and K1 is still under construction
C8_Witness ==
    /\ last.op \in ResolveOps
    /\ last.res = Err("EPERM")
    /\ LET m == last.args[1]
       IN  /\ mgrs[m].st = "moved"
           /\ reqs[mgrs[m].key].st = "construct"
           /\ auth # 0 /\ auth # mgrs[m].key
           /\ \E m2 \in Mgrs : mgrs[m2].st = "held" /\ mgrs[m2].key = auth

\* the last step was Key::read on user key k, a live key linked into the
\* possessed keyring Root
ReadOfLinkedKey(k) ==
    /\ last.op = "read" /\ last.args = <<k>>
    /\ keys[k].st = "live" /\ keys[k].type = KEY_TYPE_USER
    /\ <<Root, k>> \in links

NoReadBit(k) ==
    ~HasBit(keys[k].perm, KEY_USR_READ) /\ ~HasBit(keys[k].perm, KEY_POS_READ)

NoSearchBit(k) ==
    ~HasBit(keys[k].perm, KEY_USR_SEARCH) /\ ~HasBit(keys[k].perm, KEY_POS_SEARCH)

Scenario == join(<<<<"m", "y", "d", "e", "s", "c">>, <<"1", "0", "0", "0">>, <<"1", "0", "0", "0">>, <<"3", "f", "0", "1", "0", "0", "0", "0">>, <<"u", "s", "e", "r">>>>)

ScenarioParsed == dp.pc = "done" /\ dp.desc = Scenario

Fields(desc) == split(desc, ";")
LastFive(desc) ==
    join(SubSeq(Fields(desc), Len(Fields(desc)) - 4, Len(Fields(desc))))

\* C11: description() on a string of fewer than five fields returns
\* Err(EINVAL); on a string of more than five fields whose last five parse
\* to a Description it returns Ok with that same Description.
C11_FieldCount ==
    dp.pc = "returned" =>
        /\ Len(Fields(dp.desc)) < 5 => dp.err = "EINVAL"
        /\ (Len(Fields(dp.desc)) > 5 /\ parse(LastFive(dp.desc)).kind = "Some") =>
               /\ dp.err = ""
               /\ dp.res = parse(LastFive(dp.desc))

\* description() has returned Ok for a string of six fields
C11_Witness ==
    /\ dp.pc = "returned"
    /\ Len(Fields(dp.desc)) > 5
    /\ dp.err = "" /\ dp.res.kind = "Some"

\* the number of entries for k in a list of serials
Entries(seq, k) == Cardinality({j \in 1..Len(seq) : seq[j] = k})

RECURSIVE Under(_)
Under(k) ==
    LET rings == {c \in Children(k) : Present(c) /\ IsKeyring(c)}
    IN  rings \cup UNION {Under(c) : c \in rings}

RECURSIVE ChainDepth(_)
ChainDepth(k) ==
    LET rings == {c \in Children(k) : Present(c) /\ IsKeyring(c)}
        depths == {ChainDepth(c) : c \in rings}
    IN  IF rings = {} THEN 0
        ELSE 1 + (CHOOSE d \in depths : \A e \in depths : e <= d)

\* C13: a link_keyring that would close a cycle (the keyring linked to is
\* the object or lies below it) adds no link; it fails with EDEADLK while
\* the chains below the object are at most 7 links deep and with ELOOP when
\* one is 8 links deep or deeper -- a single chain of depth 8, or two
\* stacks of depth 5 joined end to end (9), but not two of depth 4 (7).
C13_CycleDepth ==
    [][\A r, k \in ChainSerials :
        (/\ last'.op = "link" /\ last'.args = <<r, k>>
         /\ Present(r) /\ Present(k) /\ IsKeyring(r) /\ IsKeyring(k)
         /\ r \in Under(k) \cup {k}) =>
            /\ links' = links
            /\ ChainDepth(k) <= 7 => last'.res = Err("EDEADLK")
            /\ ChainDepth(k) >= 8 => last'.res = Err("ELOOP")]_vars

\* the link that closes a single chain of depth 8 has failed with ELOOP
C13_Witness ==
    /\ last.op = "link" /\ last.res = Err("ELOOP")
    /\ last.args[2] = Root
    /\ Cardinality(Children(Root)) = 1
    /\ ChainDepth(Root) = 8
    /\ last.args[1] \in Leaves

\* what lies in the subtree of keyring r, at any depth
Subtree(r) == UNION {Children(w) : w \in Below(r)}

\* the objects of the type and the description in the subtree of r
Hits(r, type, d) ==
    {c \in Subtree(r) : Present(c) /\ keys[c].type = type /\ keys[c].desc = d}

SearchTypes == {KEY_TYPE_USER, KEY_TYPE_KEYRING}

\* C14: a search of keyring R for type K and description d that succeeds
\* returns the serial of an object of that type and description in the
\* subtree of R; with the masks keys are made with it succeeds whenever the
\* subtree has such an object, at whatever depth; and it fails with ENOKEY
\* when the subtree has none, in particular when the description is that of
\* an object of the other type only.
C14_RecursiveSearch ==
    [][\A r \in Serials, type \in SearchTypes, d \in Descs, dest \in {0} \cup Serials :
         (last'.op = "search" /\ last'.args = <<r, type, d, dest>>
            /\ Present(r) /\ IsKeyring(r) /\ Searchable(r))
         => /\ last'.res.ok => last'.res.val \in Hits(r, type, d)
            /\ (Hits(r, type, d) # {} /\ dest \in {0, r}
                  /\ \A k \in Serials : keys[k].perm = DefaultPerm)
               => last'.res.ok
            /\ Hits(r, type, d) = {} => last'.res = Err("ENOKEY")]_vars

\* a key found two keyrings down, and a search that sees the other type only
C14_Witness ==
    /\ last.op = "search" /\ last.res.ok
    /\ last.args[1] = Root /\ last.args[2] = KEY_TYPE_USER
    /\ \E w \in Serials \ {Root} : <<Root, w>> \in links /\ <<w, last.res.val>> \in links

C14_WitnessMismatch ==
    /\ last.op = "search" /\ last.res = Err("ENOKEY")
    /\ last.args[2] = KEY_TYPE_KEYRING
    /\ \E c \in Children(last.args[1]) :
          keys[c].type = KEY_TYPE_USER /\ keys[c].desc = last.args[3]

\* C15: a search given a destination keyring that succeeds leaves the object
\* it found a child of the destination; when what can be found has no link
\* permission, or the destination no write permission, the search that
\* would succeed without a destination fails with EACCES and the
\* destination keeps the children it had.
C15_SearchDestination ==
    [][\A r \in Serials, type \in SearchTypes, d \in Descs, dest \in Serials :
         (last'.op = "search" /\ last'.args = <<r, type, d, dest>>)
         => /\ last'.res.ok => <<dest, last'.res.val>> \in links'
            /\ ( /\ Present(dest) /\ IsKeyring(dest)
                 /\ search_errno(r, type, d) = ""
                 /\ \/ \A f \in Hits(r, type, d) : ~May(f, KEY_USR_LINK, KEY_POS_LINK)
                    \/ ~May(dest, KEY_USR_WRITE, KEY_POS_WRITE) )
               => /\ last'.res = Err("EACCES")
                  /\ Children(dest)' = Children(dest)]_vars

\* a key found below the keyring searched and linked into another keyring
C15_Witness ==
    /\ last.op = "search" /\ last.res.ok
    /\ last.args[4] \notin {0, last.args[1]}
    /\ <<last.args[4], last.res.val>> \in links
    /\ <<last.args[1], last.res.val>> \in links

\* ... and a search refused for the destination's sake
C15_WitnessDenied ==
    /\ last.op = "search" /\ last.res = Err("EACCES")
    /\ last.args[4] \notin {0, last.args[1]}
    /\ ~HasBit(keys[last.args[4]].perm, KEY_POS_WRITE)
    /\ Hits(last.args[1], last.args[2], last.args[3]) # {}

\* C16: a search whose matches all lack the search bit, behind keyrings that
\* all have it, fails with EACCES; a search whose matches all lie in nested
\* keyrings without the search bit fails with ENOKEY.
C16_SearchPermission ==
    [][\A r \in Serials, type \in SearchTypes, d \in Descs, dest \in {0} \cup Serials :
         (last'.op = "search" /\ last'.args = <<r, type, d, dest>>
            /\ Present(r) /\ IsKeyring(r) /\ ~NoSearchBit(r)
            /\ Hits(r, type, d) # {})
         => /\ ( /\ \A h \in Hits(r, type, d) : NoSearchBit(h)
                 /\ \A w \in Below(r) : ~NoSearchBit(w) )
               => last'.res = Err("EACCES")
            /\ (\A h \in Hits(r, type, d) : \A w \in Parents(h) \cap Below(r) :
                    w # r /\ NoSearchBit(w))
               => last'.res = Err("ENOKEY")]_vars

\* the match itself may not be searched
C16_Witness ==
    /\ last.op = "search" /\ last.res = Err("EACCES")
    /\ \E h \in Hits(last.args[1], last.args[2], last.args[3]) :
          NoSearchBit(h) /\ <<last.args[1], h>> \notin links

\* ... or the keyring on the way to it
C16_WitnessSkipped ==
    /\ last.op = "search" /\ last.res = Err("ENOKEY")
    /\ \E h \in Hits(last.args[1], last.args[2], last.args[3]) :
          \E w \in Parents(h) : NoSearchBit(w) /\ <<last.args[1], w>> \in links

\* the calls a handle or its clone makes on the serial
RevokedOps == {"read", "description", "set_timeout", "invalidate"}

\* C17: a revoke that returns Ok leaves the key revoked; from then on every
\* read, description, set_timeout and invalidate on its serial, and every
\* Keyring::read that starts on it, fails with EKEYREVOKED, and the
\* collector never turns that into ENOKEY behind the caller's back.
C17_Revocation ==
    [][/\ (last'.op = "revoke" /\ last'.res.ok)
            => keys'[last'.args[1]].st = "revoked"
       /\ \A k \in Serials :
            keys[k].st = "revoked"
            => /\ keys'[k].st = "revoked"
               /\ (last'.op \in RevokedOps /\ last'.args[1] = k)
                    => last'.res = Err("EKEYREVOKED")
               /\ (rd.pc = "idle" /\ rd'.pc # "idle" /\ rd'.ring = k)
                    => rd'.pc = "done" /\ rd'.res = Err("EKEYREVOKED")]_vars

\* a clone's call on a key revoked through another handle
C17_Witness ==
    /\ last.op \in RevokedOps /\ last.res = Err("EKEYREVOKED")
    /\ keys[last.args[1]].st = "revoked"
    /\ \E k \in Serials : keys[k].st = "dead" /\ k \in gone

NoSetattrBit(k) ==
    /\ ~HasBit(keys[k].perm, KEY_POS_SETATTR) /\ ~HasBit(keys[k].perm, KEY_USR_SETATTR)
    /\ ~HasBit(keys[k].perm, KEY_GRP_SETATTR) /\ ~HasBit(keys[k].perm, KEY_OTH_SETATTR)

\* C19: a set_permissions(p) that succeeds makes p the mask of the key, and a
\* description that succeeds reports the mask of the key, so that the
\* description right after set_permissions(p) has perms = p whatever the
\* mask was; on a key whose mask has no setattr bit in any zone,
\* set_permissions fails with EACCES and the mask stays.
C19_SetPermissions ==
    [][\A k \in Serials :
        /\ \A p \in SetattrPerms :
              (last'.op = "set_permissions" /\ last'.args = <<k, p>> /\ last'.res.ok)
              => keys'[k].perm = p
        /\ \A p \in SetattrPerms :
              (last.op = "set_permissions" /\ last.args = <<k, p>> /\ last.res.ok
                 /\ last'.op = "description" /\ last'.args = <<k>> /\ last'.res.ok)
              => last'.res.desc.perms = p
        /\ (NoSetattrBit(k) /\ last'.op = "set_permissions" /\ last'.args[1] = k)
              => last'.res = Err("EACCES") /\ keys'[k].perm = keys[k].perm]_vars

\* the mask of a new key replaced by one with other bits, and described
C19_Witness ==
    /\ last.op = "description" /\ last.res.ok
    /\ last.res.desc.perms = KEY_USR_SETATTR + KEY_USR_VIEW + KEY_GRP_ALL

\* ... and a set_permissions refused for want of the setattr bit
C19_WitnessRefused ==
    /\ last.op = "set_permissions" /\ last.res = Err("EACCES")
    /\ last.args[2] = PermAll
    /\ keys[last.args[1]].perm =
          PermAll - KEY_POS_SETATTR - KEY_USR_SETATTR - KEY_GRP_SETATTR - KEY_OTH_SETATTR

\* what keyctl_reject answers manager m and leaves of the requests
RejectOutcome(m, ring, timeout, error) ==
    LET k == mgrs[m].key
    IN  IF auth = k /\ reqs[k].st = "construct"
        THEN [res |-> Unit, auth |-> 0,
              reqs |-> [reqs EXCEPT ![k] = [st |-> "rejected", payload |-> <<>>,
                                            ring |-> ring, error |-> error,
                                            timeout |-> timeout.secs]]]
        ELSE [res |-> Err("EPERM"), auth |-> auth, reqs |-> reqs]

C20_WitnessRequest ==
    /\ last.op = "request" /\ last.res = Err("ENOKEY")
    /\ reqs[last.args[1]].timeout > 0

\* C21: unlinking from a keyring the caller may write an object that exists
\* but is not its child fails with ENOENT and leaves every keyring's children
\* alone; unlinking an object the collector has removed fails with ENOKEY.
C21_UnlinkErrors ==
    [][\A r, k \in Serials :
         (last'.op = "unlink" /\ last'.args = <<r, k>> /\ LookupRing(r) = "")
         => /\ (keys[k].st = "live" /\ <<r, k>> \notin links)
                 => last'.res = Err("ENOENT") /\ links' = links
            /\ keys[k].st = "dead" => last'.res = Err("ENOKEY")]_vars

\* an object of another keyring, refused with ENOENT, after a collected one
\* was refused with ENOKEY
C21_Witness ==
    /\ last.op = "unlink" /\ last.res = Err("ENOENT")
    /\ Parents(last.args[2]) # {}
    /\ \E k \in Serials : keys[k].st = "dead" /\ k \in gone

\* C22: with nothing changing the keyrings while it runs, a successful
\* Keyring::read returns the keyring's immediate children and nothing else,
\* each of them once, in the keyrings list exactly when its described type is
\* "keyring" and in the keys list otherwise; right after a clear() of the
\* keyring both lists are empty.
C22_ReadImmediateChildren ==
    (rd.pc = "done" /\ rd.res.ok) =>
        /\ Elems(rd.keys) \cup Elems(rd.keyrings) = Children(rd.ring)
        /\ \A c \in Children(rd.ring) :
            /\ Entries(rd.keys, c) + Entries(rd.keyrings, c) = 1
            /\ Entries(rd.keyrings, c) = 1
                 <=> description(c).desc.type_ = KEY_TYPE_KEYRING
        /\ (last.op = "clear" /\ last.res.ok /\ last.args = <<rd.ring>>)
             => rd.keys = <<>> /\ rd.keyrings = <<>>

\* a read of a keyring that holds a keyring with a child of its own
C22_Witness ==
    /\ rd.pc = "done" /\ rd.res.ok
    /\ rd.keyrings # <<>>
    /\ \E c \in Children(rd.ring) : Children(c) \ Children(rd.ring) # {}

\* a read that returns a key and a keyring
C22_WitnessBoth ==
    /\ rd.pc = "done" /\ rd.res.ok
    /\ rd.keys # <<>> /\ rd.keyrings # <<>>

\* a read right after the clear() of a keyring that had children
C22_WitnessCleared ==
    /\ rd.pc = "done" /\ rd.res.ok
    /\ last.op = "clear" /\ last.res.ok /\ last.args = <<rd.ring>>
    /\ last.note = "had children"

\* C23: the string a description retrieval or a security retrieval returns
\* has the size the kernel reported for the fill call, minus one, as its
\* length: the trailing NUL is not part of it.
C23_ExcludesNUL ==
    [][(call.pc = "probed" /\ call'.pc = "done" /\ call'.res.ok
            /\ call.kind \in {"describe", "security"})
        => Len(call'.res.bytes) = KernelSize(call.kind, kobj) - 1]_vars

\* C23, description retrieval alone: the length is the reported size minus
\* one, and the NUL is not in the string when the reply fitted the buffer.
C23_DescriptionExcludesNUL ==
    [][(call.pc = "probed" /\ call'.pc = "done" /\ call'.res.ok
            /\ call.kind = "describe")
        => /\ Len(call'.res.bytes) = KernelSize(call.kind, kobj) - 1
           /\ KernelSize(call.kind, kobj) <= call.sz => call'.res.bytes = kobj]_vars

\* a security label returned with its terminator as the last byte
C23_WitnessSecurity ==
    /\ call.pc = "done" /\ call.res.ok /\ call.kind = "security"
    /\ call.res.bytes = Append(kobj, NUL)

\* C24: in every serial-returning operation a kernel return value other than
\* the failure sentinel becomes a handle only if it is non-zero and fits in a
\* signed 32-bit integer, the handle then being that value; a return of zero
\* or of a value outside the 32-bit range aborts and is never turned into a
\* serial.
C24_SerialConversion ==
    last.op \in RawSerialOps \cup ApiSerialOps =>
        LET res == last.args[1]
        IN  /\ last.res.ok => fits_i32(res) /\ res.low # 0 /\ last.res.val = res.low
            /\ (~fits_i32(res) \/ res.low = 0) => last.res = Aborted

\* C24, for the functions of keyutils-raw alone.
C24_RawSerialConversion ==
    last.op \in RawSerialOps =>
        LET res == last.args[1]
        IN  /\ last.res.ok => fits_i32(res) /\ res.low # 0 /\ last.res.val = res.low
            /\ (~fits_i32(res) \/ res.low = 0) => last.res = Aborted

\* a return value of 2^32 + 1 that a search turned into the serial 1
C24_WitnessWrapped ==
    /\ last.op \in ApiSerialOps /\ last.args[1] = [top |-> 1, low |-> 1]
    /\ last.res = Ok(1)

\* a return value outside the 32 bits that made a raw function abort
C24_WitnessAborted ==
    /\ last.op \in RawSerialOps /\ ~fits_i32(last.args[1]) /\ last.res = Aborted

\* Duration::as_secs: the whole seconds, as 64 bits in two halves
as_secs(timeout) == [top |-> timeout.top, secs |-> timeout.secs]

\* C25: a successful set_timeout(d) hands the kernel exactly the whole seconds
\* of d, so that the timeout the key gets is 0 (no expiry) only when d is
\* shorter than one second.
C25_WholeSeconds ==
    [][\A k \in Serials, timeout \in Durations :
         (set_timeout(k, timeout) /\ last'.res.ok)
         => /\ as_secs(timeout) = [top |-> 0, secs |-> keys'[k].timeout]
            /\ keys'[k].timeout = 0 <=> as_secs(timeout) = [top |-> 0, secs |-> 0]]_vars

\* C25, for durations below 2^32 seconds: the nanoseconds are dropped and
\* the seconds reach the kernel as they are.
C25_PartialSecondsDropped ==
    [][\A k \in Serials, timeout \in Durations :
         (set_timeout(k, timeout) /\ last'.res.ok /\ timeout.top = 0)
         => keys'[k].timeout = timeout.secs]_vars

\* a key whose timeout was set and has since run out
C25_WitnessExpired ==
    \E k \in Serials : keys[k].st = "expired" /\ last.op = "tick"

\* The mask field of a description string: the second field from the tail.
MaskField(desc) == Fields(desc)[Len(Fields(desc)) - 1]

\* A mask as the kernel prints it: one to eight hexadecimal digits.
IsHexMask(str) ==
    /\ Len(str) \in 1..8
    /\ \A i \in 1..Len(str) : to_digit(str[i], 16) >= 0

\* The value of a printed mask without the two top bits of each byte, digit
\* by digit: the upper digit of a byte keeps its two low bits.
RECURSIVE DefinedBits(_)
DefinedBits(str) ==
    IF str = <<>> THEN 0
    ELSE LET j == Len(str) - 1
             v == to_digit(Head(str), 16)
         IN  (IF j % 2 = 1 THEN v % 4 ELSE v) * (16 ^ j) + DefinedBits(Tail(str))

\* No bit of the mask lies outside 0x3f3f3f3f.
NoUndefinedBit(perms) == \A i \in 0..3 : (perms \div (256 ^ i)) % 256 < 64

\* C26: when the description string carries a mask with bits outside
\* 0x3f3f3f3f, parsing still yields a Description and description() no error,
\* the Permission being the reported mask without those bits; no Permission
\* that is returned has an undefined bit.
C26_UndefinedBitsCleared ==
    /\ (dp.pc # "idle" /\ dp.res.kind = "Some") => NoUndefinedBit(dp.res.perms)
    /\ (dp.pc # "idle" /\ Len(Fields(dp.desc)) >= 5 /\ IsHexMask(MaskField(dp.desc))
            /\ dp.res.kind # "panic")
        => /\ dp.res.kind = "Some"
           /\ dp.res.perms = DefinedBits(MaskField(dp.desc))
           /\ dp.pc = "returned" => dp.err = ""

\* description() returned for a string whose mask is ffffffff
C26_Witness ==
    /\ dp.pc = "returned" /\ dp.err = "" /\ dp.res.kind = "Some"
    /\ MaskField(dp.desc) = <<"F", "F", "f", "f", "f", "f", "f", "f">>
    /\ dp.res.perms = PermAll

\* the masks of tests/reading.rs
NoRead == KEY_USR_ALL - KEY_USR_READ
NoReadPossessor == KEY_POS_ALL - KEY_POS_READ
NoReadNoSearch == KEY_USR_ALL - KEY_USR_READ - KEY_USR_SEARCH
ReadNoSearch == KEY_USR_ALL - KEY_USR_SEARCH

C27_WitnessRefused ==
    \E k \in Serials \ {Root} :
        /\ ReadOfLinkedKey(k)
        /\ keys[k].perm = NoReadNoSearch
        /\ last.res = Err("EACCES")

\* a read that succeeded under the mask with a search bit and no read bit
C27_WitnessNoRead ==
    \E k \in Serials \ {Root} :
        /\ ReadOfLinkedKey(k)
        /\ keys[k].perm = NoRead
        /\ last.res = OkBytes(keys[k].payload)

\* C28: search_for_key and search_for_keyring, which take no destination
\* keyring, link what they find into no keyring: the links of every keyring,
\* the searched one included, are the same after the call; and they succeed
\* whenever the search finds something, whatever the link permission of it.
C28_SearchLinksNothing ==
    [][\A r \in Serials, d \in Descs :
         /\ search_for_key(r, d)
               => /\ links' = links
                  /\ search_errno(r, KEY_TYPE_USER, d) = "" => last'.res.ok
         /\ search_for_keyring(r, d)
               => /\ links' = links
                  /\ search_errno(r, KEY_TYPE_KEYRING, d) = "" => last'.res.ok]_vars

\* C28, for keyctl_search with no destination (destringid 0).
C28_NoDestination ==
    [][\A type \in SearchTypes, d \in Descs :
         search_into(Root, type, d, 0)
            => /\ links' = links
               /\ search_errno(Root, type, d) = "" => last'.res.ok]_vars

\* a search without destination that found a key without link permission
C28_WitnessNoDestination ==
    /\ last.op = "search" /\ last.res.ok /\ last.args[4] = 0
    /\ keys[last.res.val].perm = DefaultPerm - KEY_POS_LINK

\* a search_for_key that found a key in a nested keyring and left it linked
\* into the searched keyring as well
C28_WitnessLinked ==
    /\ last.op = "search" /\ last.res.ok /\ last.args[4] = last.args[1]
    /\ Cardinality(Parents(last.res.val)) = 2

\* a search_for_key refused because what it found may not be linked
C28_WitnessRefused ==
    /\ last.op = "search" /\ last.res = Err("EACCES") /\ last.args[4] = last.args[1]
    /\ search_errno(last.args[1], last.args[2], last.args[3]) = ""

\* C29: Key::request_with_fallback::<K>(d, info) asks the kernel for the type
\* name K::name() and the description d, the pair Key::request::<K>(d) asks
\* for; the callout info is the only difference between the two calls.
C29_FallbackSameRequest ==
    [][\A K \in KeyTypes, d \in Descs :
         /\ Key_request(K, d) => last'.args = <<name(K), d, <<>>, 0>>
         /\ Key_request_with_fallback(K, d, "info")
               => last'.args = <<name(K), d, <<"info">>, 0>>]_vars

\* C29, for Key::request alone.
C29_RequestByType ==
    [][\A K \in KeyTypes, d \in Descs :
         Key_request(K, d) => last'.args = <<name(K), d, <<>>, 0>>]_vars

\* a request with callout info for a description only a user key carries,
\* answered with ENOKEY for the type "keyring"
C29_WitnessFallback ==
    /\ last.op = "request_key" /\ last.args[3] = <<"info">>
    /\ last.args[1] = KEY_TYPE_KEYRING /\ last.res = Err("ENOKEY")
    /\ \E k \in Serials : /\ <<Root, k>> \in links /\ keys[k].st = "live"
                            /\ keys[k].type = KEY_TYPE_USER
                            /\ keys[k].desc = last.args[2]

\* a request without callout info that found the user key
C29_WitnessRequest ==
    /\ last.op = "request_key" /\ last.args[3] = <<>> /\ last.res.ok
    /\ last.args[1] = KEY_TYPE_USER
    /\ keys[last.res.val].type = KEY_TYPE_USER

\* C30: the key types have pairwise distinct names, so that a key added
\* through a type other than Keyring is never created as a keyring, nor put
\* into the keyrings list by a Keyring::read that follows.
C30_DistinctTypes ==
    /\ [](\A K1, K2 \in KeyTypes : K1 # K2 => name(K1) # name(K2))
    /\ [][\A r \in Serials, K \in KeyTypes \ {"Keyring"}, d \in Descs :
            (add_key_impl(r, K, d) /\ last'.res.ok)
            => keys'[last'.res.val].type # KEY_TYPE_KEYRING]_vars
    /\ [](\A K \in KeyTypes \ {"Keyring"} :
            (rd.pc = "done" /\ rd.res.ok /\ last.op = "add_key" /\ last.res.ok
                /\ last.args[2] = name(K))
            => last.res.val \notin Elems(rd.keyrings))

\* C30, without the Blacklist type.
C30_DistinctTypesButBlacklist ==
    /\ [](\A K1, K2 \in KeyTypes \ {"Blacklist"} : K1 # K2 => name(K1) # name(K2))
    /\ [][\A K \in KeyTypes \ {"Keyring", "Blacklist"} :
            (last'.op = "add_key" /\ last'.res.ok /\ last'.args[2] = name(K))
            => keys'[last'.res.val].type # KEY_TYPE_KEYRING]_vars
    /\ [](\A K \in KeyTypes \ {"Keyring", "Blacklist"} :
            (rd.pc = "done" /\ rd.res.ok /\ last.op = "add_key" /\ last.res.ok
                /\ last.args[2] = name(K))
            => last.res.val \in Elems(rd.keys))

\* what add_key::<Blacklist> made, returned by read among the keyrings
C30_WitnessBlacklist ==
    /\ rd.pc = "done" /\ rd.res.ok
    /\ last.op = "add_key" /\ last.res.ok /\ last.args[2] = name("Blacklist")
    /\ last.res.val \in Elems(rd.keyrings)

====
